---- MODULE Spec2Model ----
(***************************************************************************)
(* A model of the phoebus GraphQL executor: field collection               *)
(* (executor/collect_fields.rs) and the hand-written selection-set and     *)
(* field futures (executor/futures.rs), with the introspection decorators  *)
(* of introspection.rs that the executor composes around resolvers.        *)
(***************************************************************************)
EXTENDS Integers, Sequences, FiniteSets, TLC

VARIABLES
    cf_sel_set,     \* collect_fields: the selection set it was called with
    cf_type,        \* collect_fields: the concrete object type it was called with
    cf,             \* collect_fields: the state of the running call
    operations,     \* the operations of the query document: name and selection set
    operation_name, \* run's operation_name, an Option: <<>> or <<name>>
    diags,          \* the diagnostics validation gives for the document
    quirk,          \* how the user's resolvers depart from the schema, if they do
    result,         \* what run has returned
    query,          \* the root selection set of the operation run executes
    root,           \* the root SelectionSetFuture and the futures it owns
    calls,          \* the calls made to the user's resolvers, in call order
    ready,          \* the resolver calls that have their answer
    instant,        \* the field names whose resolver answers without suspending
    faulty,         \* the <<resolver, field>> pairs whose resolver returns an error
    dropped,        \* the future run returned has been dropped by its caller
    first,          \* what an earlier run of the same request returned
    call_in,        \* the input of a function called by itself
    call_out        \* what the function returned

cf_vars == <<cf_sel_set, cf_type, cf>>
input_vars == <<operations, operation_name, diags, quirk, instant, faulty>>
exec_vars == <<operations, operation_name, diags, quirk, result, query, root, calls,
               ready, instant, faulty, dropped, first>>
call_vars == <<call_in, call_out>>
vars == <<cf_sel_set, cf_type, cf, operations, operation_name, diags, quirk, result,
          query, root, calls, ready, instant, faulty, dropped, first, call_in, call_out>>

----------------------------------------------------------------------------
(* Bounds of the model.                                                    *)

\* Selections following the directive-carrying selection of a checked set.
MaxTail == 1
\* Depth of nested inner() calls the call stack has room for.
StackLimit == 4
\* Resolver methods of the user that fail in one execution.
MaxFaults == 1

----------------------------------------------------------------------------
(* The schema of the examples: Query, Person, the Pet interface with Dog   *)
(* and Cat, two enums, a union Named = Person | Dog, and an input object.  *)

ObjectTypes == {"Query", "Person", "Dog", "Cat"}

\* TypeSystem::type_definitions_by_name, each type with its kind.
type_definitions_by_name ==
    [t \in {"Query", "Person", "Dog", "Cat", "Pet", "Named", "DogBreed",
            "CatBreed", "PetInput", "String", "Int", "__Schema", "__Type"} |->
        CASE t \in ObjectTypes \cup {"__Schema", "__Type"} -> "Object"
          [] t = "Pet" -> "Interface"
          [] t = "Named" -> "Union"
          [] t \in {"DogBreed", "CatBreed"} -> "Enum"
          [] t = "PetInput" -> "InputObject"
          [] OTHER -> "Scalar"]

\* TypeSystem::subtype_map: concrete type name -> the abstract types it satisfies.
subtype_map ==
    [t \in {"Person", "Dog", "Cat"} |->
        CASE t = "Person" -> {"Named"}
          [] t = "Dog" -> {"Pet", "Named"}
          [] OTHER -> {"Pet"}]

\* ExecCtx::find_type_definition_by_name; "None" when the name is unknown.
find_type_definition_by_name(name) ==
    IF name \in DOMAIN type_definitions_by_name
    THEN type_definitions_by_name[name] ELSE "None"

\* ExecCtx::is_subtype
is_subtype(concrete_type, abstract_type) ==
    IF concrete_type \in DOMAIN subtype_map
    THEN abstract_type \in subtype_map[concrete_type]
    ELSE FALSE

----------------------------------------------------------------------------
(* Selections. A selection is a record; `skip` and `include` hold the `if` *)
(* argument of the directive: "absent" (no such directive), "noarg" (the   *)
(* directive without an `if`), "true"/"false" (boolean literals), "$yes",  *)
(* "$no", "$undef" (variable references) or "int" (any other value).       *)

Sel(kind, name, alias, skip, include, cond, sels) ==
    [kind |-> kind, name |-> name, alias |-> alias, skip |-> skip,
     include |-> include, cond |-> cond, sels |-> sels]

Fld(name) == Sel("Field", name, "", "absent", "absent", "", <<>>)
FldS(name, sels) == Sel("Field", name, "", "absent", "absent", "", sels)
Aliased(alias, name) == Sel("Field", name, alias, "absent", "absent", "", <<>>)
Spread(name) == Sel("FragmentSpread", name, "", "absent", "absent", "", <<>>)
Inline(cond, sels) == Sel("InlineFragment", "", "", "absent", "absent", cond, sels)
WithDirs(sel, skip, include) == [sel EXCEPT !.skip = skip, !.include = include]

\* The request's variables (ExecCtx::variables).
variables == [yes |-> TRUE, no |-> FALSE]

\* ExecCtx::fragments: the fragment definitions of the executable document.
\* Cyc1/Cyc2 spread each other and SelfCyc spreads itself.
fragments ==
    [PetFrag   |-> [cond |-> "Pet",      sels |-> <<Fld("name")>>],
     DogFrag   |-> [cond |-> "Dog",      sels |-> <<Fld("dogBreed"), Aliased("n", "name")>>],
     NamedFrag |-> [cond |-> "Named",    sels |-> <<Fld("name")>>],
     Outer     |-> [cond |-> "Dog",      sels |-> <<Spread("PetFrag"), Aliased("name", "dogBreed")>>],
     Cyc1      |-> [cond |-> "Pet",      sels |-> <<Fld("name"), Spread("Cyc2")>>],
     Cyc2      |-> [cond |-> "Pet",      sels |-> <<Spread("Cyc1")>>],
     SelfCyc   |-> [cond |-> "Query",    sels |-> <<Fld("peopleCount"), Spread("SelfCyc")>>],
     QueryFrag |-> [cond |-> "Query",
                    sels |-> <<Fld("peopleCount"), FldS("person", <<Fld("lastName")>>)>>],
     EnumFrag  |-> [cond |-> "DogBreed", sels |-> <<Fld("name")>>],
     GhostFrag |-> [cond |-> "Ghost",    sels |-> <<Fld("name")>>]]

fragment_or_empty(name) ==
    IF name \in DOMAIN fragments THEN [some |-> TRUE, def |-> fragments[name]]
    ELSE [some |-> TRUE, def |-> [cond |-> "Query", sels |-> <<>>]]

\* ExecCtx::fragment; "None" when no fragment has the name.
fragment(name) ==
    IF name \in DOMAIN fragments THEN [some |-> TRUE, def |-> fragments[name]]
    ELSE [some |-> FALSE, def |-> [cond |-> "", sels |-> <<>>]]

----------------------------------------------------------------------------
(* executor/collect_fields.rs                                              *)

IsVariable(arg) == arg \in {"$yes", "$no", "$undef"}

\* should_skip: "true"/"false" for Ok(b), "err" for Err, "panic" for todo!().
should_skip(sel) ==
    CASE sel.skip = "absent" -> "false"
      [] sel.skip = "noarg" -> "err"
      [] sel.skip \in {"true", "false"} -> sel.skip
      [] IsVariable(sel.skip) -> "panic"
      [] OTHER -> "err"

should_include_negated(sel) ==
    CASE sel.include = "absent" -> "true"
      [] sel.include = "noarg" -> "err"
      [] sel.include = "true" -> "false"
      [] sel.include = "false" -> "true"
      [] IsVariable(sel.include) -> "panic"
      [] OTHER -> "err"

\* should_include: "true"/"false" for Ok(b), "err" for Err, "panic" for todo!().
should_include(sel) ==
    CASE sel.include = "absent" -> "true"
      [] sel.include = "noarg" -> "err"
      [] sel.include \in {"true", "false"} -> sel.include
      [] IsVariable(sel.include) -> "panic"
      [] OTHER -> "err"

\* The loop's test `should_skip(sel)? || !should_include(sel)?`, evaluated left
\* to right: "skip", "keep", or the "err"/"panic" that ends the call.
directive_test(sel) ==
    LET s == should_skip(sel) IN
    IF s \in {"err", "panic"} THEN s
    ELSE IF s = "true" THEN "skip"
    ELSE LET i == should_include(sel) IN
         IF i \in {"err", "panic"} THEN i
         ELSE IF i = "false" THEN "skip" ELSE "keep"

fragment_type_applies_no_error(obj_type, frag_type) ==
    LET kind == find_type_definition_by_name(frag_type) IN
    CASE kind = "Object" -> IF obj_type = frag_type THEN "true" ELSE "false"
      [] kind \in {"Interface", "Union"} ->
            IF is_subtype(obj_type, frag_type) THEN "true" ELSE "false"
      [] OTHER -> "false"

fragment_type_applies_any_object(obj_type, frag_type) ==
    LET kind == find_type_definition_by_name(frag_type) IN
    CASE kind = "Object" -> "true"
      [] kind \in {"Interface", "Union"} ->
            IF is_subtype(obj_type, frag_type) THEN "true" ELSE "false"
      [] OTHER -> "err"

\* fragment_type_applies: "true"/"false" for Ok(b), "err" for an invalid kind.
\* Object type definitions are compared by value; a schema has one per name.
fragment_type_applies(obj_type, frag_type) ==
    LET kind == find_type_definition_by_name(frag_type) IN
    CASE kind = "Object" -> IF obj_type = frag_type THEN "true" ELSE "false"
      [] kind \in {"Interface", "Union"} ->
            IF is_subtype(obj_type, frag_type) THEN "true" ELSE "false"
      [] OTHER -> "err"

response_key_name_only(field) == field.name

\* `field.alias().map(..).unwrap_or(field.name())`
response_key(field) == IF field.alias # "" THEN field.alias ELSE field.name

KeyIndex(grouped, key) ==
    IF \E p \in 1..Len(grouped) : grouped[p].key = key
    THEN CHOOSE p \in 1..Len(grouped) : grouped[p].key = key
    ELSE 0

\* `grouped_fields.entry(response_key).or_default().push(field)` on an IndexMap,
\* here a sequence of [key, fields] in insertion order.
push_field(grouped, field) ==
    LET key == response_key(field)
        p == KeyIndex(grouped, key) IN
    IF p = 0 THEN Append(grouped, [key |-> key, fields |-> <<field>>])
    ELSE [grouped EXCEPT ![p].fields = Append(@, field)]

Frame(sels, frag) == [sels |-> sels, i |-> 1, frag |-> frag]

\* The state of a call: the stack of inner() activations (the last is the
\* running one), the map being filled, and how the call ended.
cf_start(sel_set) ==
    [status |-> "running", stack |-> <<Frame(sel_set, "")>>, grouped |-> <<>>,
     err |-> ""]

cf_fail(s, status, err) == [s EXCEPT !.status = status, !.err = err, !.stack = <<>>]

\* Advance the running activation past its current selection.
cf_continue(s) == [s EXCEPT !.stack[Len(s.stack)].i = @ + 1]

\* Call inner() on a fragment's selection set; the call stack is finite.
cf_enter(s, sels, frag) ==
    IF Len(s.stack) >= StackLimit
    THEN cf_fail(s, "overflow", "stack overflow")
    ELSE [cf_continue(s) EXCEPT !.stack = Append(@, Frame(sels, frag))]

\* What a fragment with type condition `cond` does once its type is looked up.
cf_fragment(s, concrete_type, cond, sels, frag, not_found) ==
    IF find_type_definition_by_name(cond) = "None"
    THEN cf_fail(s, "err", not_found)
    ELSE LET applies == fragment_type_applies(concrete_type, cond) IN
         CASE applies = "err" -> cf_fail(s, "err", "InvalidFragmentTypeCondition")
           [] applies = "true" -> cf_enter(s, sels, frag)
           [] OTHER -> cf_continue(s)

\* One step of inner(): the end of an activation's loop, or one iteration of it.
cf_step(s, concrete_type) ==
    LET top == s.stack[Len(s.stack)] IN
    IF top.i > Len(top.sels)
    THEN IF Len(s.stack) = 1
         THEN [s EXCEPT !.status = "ok", !.stack = <<>>]
         ELSE [s EXCEPT !.stack = SubSeq(@, 1, Len(@) - 1)]
    ELSE
      LET sel == top.sels[top.i]
          test == directive_test(sel) IN
      CASE test = "err" -> cf_fail(s, "err", "DirectiveArgumentInvalid")
        [] test = "panic" -> cf_fail(s, "panic", "not yet implemented")
        [] test = "skip" -> cf_continue(s)
        [] OTHER ->
            CASE sel.kind = "Field" ->
                    [cf_continue(s) EXCEPT !.grouped = push_field(@, sel)]
              [] sel.kind = "FragmentSpread" ->
                    LET f == fragment(sel.name) IN
                    IF ~f.some THEN cf_fail(s, "err", "FragmentNotFound")
                    ELSE cf_fragment(s, concrete_type, f.def.cond, f.def.sels,
                                     sel.name, "TypeNotFound")
              [] OTHER ->
                    IF sel.cond # ""
                    THEN cf_fragment(s, concrete_type, sel.cond, sel.sels, "",
                                     "TypeNotFound")
                    ELSE cf_continue(s)

RECURSIVE cf_run(_, _)
cf_run(s, concrete_type) ==
    IF s.status # "running" THEN s ELSE cf_run(cf_step(s, concrete_type), concrete_type)

\* collect_fields(ectx, sel_set, concrete_type): the finished call.
collect_fields(sel_set, concrete_type) == cf_run(cf_start(sel_set), concrete_type)

\* The Result the caller sees: the grouping on Ok, nothing otherwise.
cf_result(s) == [status |-> s.status,
                 grouped |-> IF s.status = "ok" THEN s.grouped ELSE <<>>]

----------------------------------------------------------------------------
(* Values, resolver results and resolvers (value.rs, resolver.rs).         *)

\* ConstValue: a scalar (by its text), a list, or an object kept in insertion
\* order. ErrV is the anyhow::Error of a failed future.
Scalar(v) == [t |-> "Scalar", v |-> v, items |-> <<>>]
ListV(vals) == [t |-> "List", v |-> "",
                items |-> [p \in 1..Len(vals) |-> [key |-> "", val |-> vals[p]]]]
ObjectV(entries) == [t |-> "Object", v |-> "", items |-> entries]
ErrV(msg) == [t |-> "Error", v |-> msg, items |-> <<>>]
NullV == Scalar("null")

\* An ObjectResolver: the user's (by the name of its type), or a decorator
\* around `inner`.
UserResolver(name) == [kind |-> "User", name |-> name, inner |-> <<>>]
IspObjectResolver(type_def, inner) ==
    [kind |-> "IspObjectResolver", name |-> type_def, inner |-> <<inner>>]
IspRootResolver(inner) == [kind |-> "IspRootResolver", name |-> "", inner |-> <<inner>>]
IspSchemaResolver == [kind |-> "IspSchemaResolver", name |-> "", inner |-> <<>>]
IspTypeResolver(ty) == [kind |-> "IspTypeResolver", name |-> ty, inner |-> <<>>]
\* Arc<T>, an ObjectResolver by the blanket impl for shared handles.
ArcResolver(inner) == [kind |-> "Arc", name |-> "", inner |-> <<inner>>]
NoResolver == [kind |-> "None", name |-> "", inner |-> <<>>]

\* Resolved: Value, Object (owning its resolver) or Array.
RValue(v) == [t |-> "Value", v |-> v, r |-> NoResolver, elems |-> <<>>]
RObject(r) == [t |-> "Object", v |-> NullV, r |-> r, elems |-> <<>>]
RArray(elems) == [t |-> "Array", v |-> NullV, r |-> NoResolver, elems |-> elems]

\* The outcome of a resolver method: Ok(resolved), Err(error) or a panic.
ROk(resolved) == [st |-> "Ok", resolved |-> resolved, err |-> ""]
RErr(msg) == [st |-> "Err", resolved |-> RValue(NullV), err |-> msg]
RPanic == [st |-> "Panic", resolved |-> RValue(NullV), err |-> "not yet implemented"]

\* The user's resolvers, as in the example server: a query root, a person with
\* two pets, a dog and a cat. `litters` is a list of lists of pets and `friend`
\* a field of the union type Named. A resolver is any implementation of the
\* trait: under a quirk one of its methods answers what the schema does not
\* declare.
QuirkField ==
    CASE quirk = "value_for_object" -> "person"
      [] quirk = "array_for_scalar" -> "peopleCount"
      [] quirk = "object_for_scalar" -> "firstName"
      [] quirk \in {"value_for_list", "object_for_list"} -> "pets"
      [] OTHER -> ""

\* What the resolver of QuirkField answers under the quirk.
QuirkAnswer ==
    CASE quirk \in {"value_for_object", "value_for_list"} -> ROk(RValue(Scalar("oops")))
      [] quirk = "array_for_scalar" ->
            ROk(RArray(<<RValue(Scalar("1")), RValue(Scalar("2"))>>))
      [] OTHER -> ROk(RObject(UserResolver("DogResolver")))

UserResolve(resolver, name) ==
    IF <<resolver, name>> \in faulty THEN RErr("resolver failed")
    ELSE IF name = QuirkField THEN QuirkAnswer
    ELSE CASE resolver = "QueryResolver" /\ name = "peopleCount" -> ROk(RValue(Scalar("42")))
           [] resolver = "QueryResolver" /\ name = "friend" ->
                ROk(RObject(UserResolver("DogResolver")))
           [] resolver = "QueryResolver" /\ name = "person" ->
                ROk(RObject(UserResolver("PersonResolver")))
           [] resolver = "QueryResolver" /\ name = "litters" ->
                ROk(RArray(<<RArray(<<RObject(UserResolver("DogResolver")),
                                      RObject(UserResolver("CatResolver"))>>),
                             RArray(<<RObject(UserResolver("CatResolver"))>>)>>))
           [] resolver = "PersonResolver" /\ name = "firstName" -> ROk(RValue(Scalar("Zack")))
           [] resolver = "PersonResolver" /\ name = "lastName" -> ROk(RValue(Scalar("Angelo")))
           [] resolver = "PersonResolver" /\ name = "age" -> ROk(RValue(Scalar("39")))
           [] resolver = "PersonResolver" /\ name = "pets" ->
                ROk(RArray(<<RObject(UserResolver("DogResolver")),
                             RObject(UserResolver("CatResolver"))>>))
           [] resolver = "DogResolver" /\ name = "name" -> ROk(RValue(Scalar("Coco")))
           [] resolver = "DogResolver" /\ name = "dogBreed" -> ROk(RValue(Scalar("CHIHUAHUA")))
           [] resolver = "CatResolver" /\ name = "name" -> ROk(RValue(Scalar("Nemo")))
           [] resolver = "CatResolver" /\ name = "catBreed" -> ROk(RValue(Scalar("TABBY")))
           [] OTHER -> RErr("invalid field")

\* The user's resolve_type_name: "" stands for None.
UserTypeName(resolver) ==
    CASE resolver = "DogResolver" ->
            CASE quirk = "type_none" -> ""
              [] quirk = "type_unknown" -> "Ghost"
              [] quirk = "type_interface" -> "Pet"
              [] quirk = "type_foreign" -> "Person"
              [] OTHER -> "Dog"
      [] resolver = "CatResolver" -> "Cat"
      [] OTHER -> ""

\* ObjectResolver::resolve_type_name of a resolver handle: only the user's
\* resolvers for Dog and Cat override the default, which answers None; the
\* decorators and Arc<T> implement resolve_field alone.
resolve_type_name(resolver) ==
    IF resolver.kind = "User" THEN UserTypeName(resolver.name) ELSE ""

\* The named type a field is declared with (`field.ty().type_def()`), list
\* and non-null wrappers removed; "None" for a field the schema does not
\* declare. The schema declares each field name with one type.
field_type_def(name) ==
    CASE name \in {"peopleCount", "age"} -> "Int"
      [] name \in {"firstName", "lastName", "name", "__typename", "description"} -> "String"
      [] name = "person" -> "Person"
      [] name = "friend" -> "Named"
      [] name = "__type" -> "__Type"
      [] name \in {"pets", "litters"} -> "Pet"
      [] name = "dogBreed" -> "DogBreed"
      [] name = "catBreed" -> "CatBreed"
      [] name = "__schema" -> "__Schema"
      [] name = "types" -> "__Type"
      [] OTHER -> "None"

\* The list wrappers of the type a field is declared with (`field.ty()`):
\* 0 for a named type, 1 for a list, 2 for a list of lists.
field_ty_lists(name) ==
    CASE name \in {"pets", "types"} -> 1
      [] name = "litters" -> 2
      [] OTHER -> 0

\* The keys of type_definitions_by_name in the order `.values()` visits them.
type_definition_names ==
    <<"__Schema", "Query", "Person", "Dog", "Cat", "Pet", "__Type", "Named",
      "DogBreed", "CatBreed", "PetInput", "String", "Int">>

\* `name.starts_with("__")`, over the names of the schema.
starts_with_underscores(name) == name \in {"__Schema", "__Type"}

types_filter_keeps_all(name) == TRUE

\* `.filter(|ty| !ty.name().starts_with("__"))`
types_filter(name) == ~starts_with_underscores(name)

\* The names of the type definitions `types` resolves to.
SchemaTypeNames == SelectSeq(type_definition_names, types_filter)

\* An IspTypeResolver of any hir::Type: `name` is the named type at the
\* bottom (`ty.name()`), `inner` the List and NonNull wrappers around it, the
\* outermost first.
IspTypeResolverOf(wrappers, name) ==
    [kind |-> "IspTypeResolver", name |-> name, inner |-> wrappers]
IspFieldResolver(field_def) == [kind |-> "IspFieldResolver", name |-> field_def, inner |-> <<>>]
IspEnumValueResolver(enum_value) ==
    [kind |-> "IspEnumValueResolver", name |-> enum_value, inner |-> <<>>]

\* `type_def.fields()` of an object or interface type.
type_def_fields(name) ==
    CASE name = "Query" -> <<"peopleCount", "person", "pets", "litters", "friend">>
      [] name = "Person" -> <<"firstName", "lastName", "age", "pets">>
      [] name = "Dog" -> <<"name", "dogBreed">>
      [] name = "Cat" -> <<"name", "catBreed">>
      [] name = "Pet" -> <<"name">>
      [] name = "__Schema" -> <<"description", "types">>
      [] OTHER -> <<"kind", "name">>

\* `type_def.implements_interfaces()` of an object type.
implements_interfaces(name) == IF name \in {"Dog", "Cat"} THEN <<"Pet">> ELSE <<>>

\* `type_def.values()` of an enum type.
enum_values(name) ==
    IF name = "DogBreed" THEN <<"CHIHUAHUA", "RETRIEVER">> ELSE <<"TABBY", "MIX">>

\* `ts.definitions.objects`, in the order of the map.
objects == <<"__Schema", "Query", "Person", "Dog", "Cat", "__Type">>

\* `ty.implements_interface(iface_name)`
implements_interface(name, iface_name) ==
    \E p \in 1..Len(implements_interfaces(name)) : implements_interfaces(name)[p] = iface_name

\* Resolved::null()
RNull == RValue(NullV)

\* A Vec of resolvers `.into()` a Resolved: an Array of Objects.
RObjects(resolvers) == RArray([p \in 1..Len(resolvers) |-> RObject(resolvers[p])])

\* The fields every kind answers alike: null for these, an error for a name
\* that is no field of __Type.
null_or_invalid(field) ==
    IF field \in {"fields", "interfaces", "possibleTypes", "enumValues", "inputFields",
                  "ofType", "specifiedByURL", "description"}
    THEN ROk(RNull) ELSE RErr("invalid list type field")

\* IspTypeResolver::resolve_list_type
resolve_list_type(resolver, field) ==
    CASE field = "kind" -> ROk(RValue(Scalar("LIST")))
      [] field = "name" -> ROk(RValue(Scalar(resolver.name)))
      [] field = "description" -> ROk(RValue(Scalar("")))
      [] field = "ofType" ->
            ROk(RObject(IspTypeResolverOf(SubSeq(resolver.inner, 2, Len(resolver.inner)),
                                          resolver.name)))
      [] OTHER -> null_or_invalid(field)

\* IspTypeResolver::resolve_non_null_type
resolve_non_null_type(resolver, field) ==
    CASE field = "kind" -> ROk(RValue(Scalar("NON_NULL")))
      [] field = "name" -> ROk(RValue(Scalar(resolver.name)))
      [] field = "ofType" ->
            ROk(RObject(IspTypeResolverOf(SubSeq(resolver.inner, 2, Len(resolver.inner)),
                                          resolver.name)))
      [] OTHER -> null_or_invalid(field)

\* IspTypeResolver::resolve_scalar_type; no scalar of the schema carries a
\* description or @specifiedBy.
resolve_scalar_type(resolver, field) ==
    CASE field = "kind" -> ROk(RValue(Scalar("SCALAR")))
      [] field = "name" -> ROk(RValue(Scalar(resolver.name)))
      [] OTHER -> null_or_invalid(field)

\* IspTypeResolver::resolve_object_type
resolve_object_type(resolver, field) ==
    CASE field = "kind" -> ROk(RValue(Scalar("OBJECT")))
      [] field = "name" -> ROk(RValue(Scalar(resolver.name)))
      [] field = "fields" ->
            LET fs == type_def_fields(resolver.name) IN
            ROk(RObjects([p \in 1..Len(fs) |-> IspFieldResolver(fs[p])]))
      [] field = "interfaces" ->
            LET is == implements_interfaces(resolver.name) IN
            ROk(RObjects([p \in 1..Len(is) |-> IspTypeResolverOf(<<>>, is[p])]))
      [] OTHER -> null_or_invalid(field)

\* IspTypeResolver::resolve_impl_possible_types
resolve_impl_possible_types(iface_name) ==
    LET impls == SelectSeq(objects, LAMBDA name : implements_interface(name, iface_name)) IN
    RObjects([p \in 1..Len(impls) |-> IspTypeResolverOf(<<>>, impls[p])])

\* IspTypeResolver::resolve_interface_type
resolve_interface_type(resolver, field) ==
    CASE field = "kind" -> ROk(RValue(Scalar("INTERFACE")))
      [] field = "name" -> ROk(RValue(Scalar(resolver.name)))
      [] field = "fields" ->
            LET fs == type_def_fields(resolver.name) IN
            ROk(RObjects([p \in 1..Len(fs) |-> IspFieldResolver(fs[p])]))
      [] field = "possibleTypes" -> ROk(resolve_impl_possible_types(resolver.name))
      [] OTHER -> null_or_invalid(field)

\* IspTypeResolver::resolve_union_type
resolve_union_type(resolver, field) ==
    CASE field = "kind" -> ROk(RValue(Scalar("UNION")))
      [] field = "name" -> ROk(RValue(Scalar(resolver.name)))
      [] OTHER -> null_or_invalid(field)

\* IspTypeResolver::resolve_enum_type
resolve_enum_type(resolver, field) ==
    CASE field = "kind" -> ROk(RValue(Scalar("ENUM")))
      [] field = "name" -> ROk(RValue(Scalar(resolver.name)))
      [] field = "enumValues" ->
            LET vs == enum_values(resolver.name) IN
            ROk(RObjects([p \in 1..Len(vs) |-> IspEnumValueResolver(vs[p])]))
      [] OTHER -> null_or_invalid(field)

\* IspTypeResolver::resolve_input_type
resolve_input_type(resolver, field) ==
    CASE field = "kind" -> ROk(RValue(Scalar("INPUT_OBJECT")))
      [] field = "name" -> ROk(RValue(Scalar(resolver.name)))
      [] OTHER -> null_or_invalid(field)

\* IspTypeResolver::resolve_named_type: by the kind of the definition the
\* name has; every field of a name without a definition is null.
resolve_named_type(resolver, field) ==
    LET ty_def == find_type_definition_by_name(resolver.name) IN
    CASE ty_def = "Scalar" -> resolve_scalar_type(resolver, field)
      [] ty_def = "Object" -> resolve_object_type(resolver, field)
      [] ty_def = "Interface" -> resolve_interface_type(resolver, field)
      [] ty_def = "Union" -> resolve_union_type(resolver, field)
      [] ty_def = "Enum" -> resolve_enum_type(resolver, field)
      [] ty_def = "InputObject" -> resolve_input_type(resolver, field)
      [] OTHER -> ROk(RNull)

\* <IspTypeResolver as ObjectResolver>::resolve_field(name)
IspTypeResolver_resolve_field(resolver, name) ==
    CASE Len(resolver.inner) = 0 -> resolve_named_type(resolver, name)
      [] Len(resolver.inner) > 0 /\ resolver.inner[1] = "List" ->
            resolve_list_type(resolver, name)
      [] OTHER -> resolve_non_null_type(resolver, name)

RECURSIVE resolve_field_target(_, _)
\* resolver.resolve_field(name) through the decorators: either the answer a
\* decorator gives by itself, or the user's resolver the call is delegated to.
resolve_field_target(resolver, name) ==
    CASE resolver.kind = "IspObjectResolver" ->
            IF name = "__typename"
            THEN [user |-> "", out |-> ROk(RValue(Scalar(resolver.name)))]
            ELSE resolve_field_target(resolver.inner[1], name)
      [] resolver.kind = "Arc" -> resolve_field_target(resolver.inner[1], name)
      [] resolver.kind = "IspRootResolver" ->
            IF name = "__schema"
            THEN [user |-> "", out |-> ROk(RObject(IspSchemaResolver))]
            ELSE resolve_field_target(resolver.inner[1], name)
      [] resolver.kind = "IspSchemaResolver" ->
            [user |-> "",
             out |-> CASE name = "types" ->
                            ROk(RArray([p \in 1..Len(SchemaTypeNames) |->
                                    RObject(IspTypeResolver(SchemaTypeNames[p]))]))
                       [] name \in {"description", "queryType", "mutationType",
                                    "subscriptionType", "directives"} -> RPanic
                       [] OTHER -> RErr("invalid type field")]
      [] resolver.kind = "IspTypeResolver" ->
            [user |-> "", out |-> IspTypeResolver_resolve_field(resolver, name)]
      [] OTHER -> [user |-> resolver.name, out |-> RErr("")]

----------------------------------------------------------------------------
(* executor/futures.rs: the futures. A future is a record:                 *)
(*   kind     "selset" (SelectionSetFuture), "field" (the async block of   *)
(*            resolve_field) or "value" (that of resolve_to_value);        *)
(*   stage    the await the future is suspended at;                        *)
(*   path     the response keys and list indexes leading to it;            *)
(*   kids     the futures it owns: field_futs, the value future of a       *)
(*            field, the selection set of an object, the elements pushed   *)
(*            to the FuturesOrdered of an array;                           *)
(*   outs     output_map, or the values try_collect has taken;             *)
(*   errs     field_errors;                                                *)
(*   st, val  what its last poll returned.                                 *)

Fut(kind, path, resolver, field, resolved) ==
    [kind |-> kind, stage |-> "start", path |-> path, resolver |-> resolver,
     field |-> field, resolved |-> resolved, kids |-> <<>>, next |-> 1,
     outs |-> <<>>, errs |-> <<>>, st |-> "Pending", val |-> NullV]

NoSel == Sel("None", "", "", "absent", "absent", "", <<>>)
NoFut == [Fut("none", <<>>, NoResolver, NoSel, RValue(NullV)) EXCEPT !.stage = "none"]

Settle(f, st, val) == [f EXCEPT !.st = st, !.val = val]
Done(f) == f.st # "Pending"

\* A pending call of a user resolver has its answer once the resolver's
\* future is ready: at once for a resolver that does not suspend.
Answered(path, name) == name \in instant \/ path \in ready

Call(path, resolver, name) == [path |-> path, resolver |-> resolver, name |-> name]

field_of_group_last(fields) == fields[Len(fields)]

RECURSIVE merged_sels(_)
merged_sels(fields) ==
    IF fields = <<>> THEN <<>> ELSE fields[1].sels \o merged_sels(Tail(fields))

field_of_group_merged(fields) == [fields[1] EXCEPT !.sels = merged_sels(fields)]

\* `fields.first()`: the field a group's task is built from.
field_of_group(fields) == fields[1]

\* resolve_field(snapshot, resolver, field): the boxed async block, not yet polled.
resolve_field(path, resolver, field) == Fut("field", path, resolver, field, RValue(NullV))

\* resolve_to_value(snapshot, field, resolved): the boxed async block, not yet polled.
resolve_to_value(path, field, resolved) == Fut("value", path, NoResolver, field, resolved)

\* The resolver resolve_to_value hands to the nested SelectionSetFuture:
\* `obj_resolver.as_ref()`.
sub_resolver(obj_resolver, object_ty) == obj_resolver

SelectionSetFuture_new_ignoring_errors(path, obj_resolver, object_ty, sel_set) ==
    LET c == collect_fields(sel_set, object_ty)
        f == Fut("selset", path, obj_resolver, NoSel, RValue(NullV)) IN
    CASE c.status \in {"panic", "overflow"} -> Settle(f, "Panic", ErrV(c.err))
      [] OTHER ->
            [f EXCEPT !.kids =
                [p \in 1..Len(c.grouped) |->
                    resolve_field(Append(path, c.grouped[p].key), obj_resolver,
                                  field_of_group(c.grouped[p].fields))]]

\* SelectionSetFuture::new: field collection, then one field future per
\* response key in collection order. `st` is "Err"/"Panic" when it fails.
SelectionSetFuture_new(path, obj_resolver, object_ty, sel_set) ==
    LET c == collect_fields(sel_set, object_ty)
        f == Fut("selset", path, obj_resolver, NoSel, RValue(NullV)) IN
    CASE c.status = "err" -> Settle(f, "Err", ErrV(c.err))
      [] c.status \in {"panic", "overflow"} -> Settle(f, "Panic", ErrV(c.err))
      [] OTHER ->
            [f EXCEPT !.kids =
                [p \in 1..Len(c.grouped) |->
                    resolve_field(Append(path, c.grouped[p].key), obj_resolver,
                                  field_of_group(c.grouped[p].fields))]]

selset_outcome_pending_on_error(kept, errs) ==
    IF kept = <<>> /\ errs = <<>> THEN "Ok" ELSE "Pending"

selset_outcome_fail_fast(kept, errs) ==
    IF errs # <<>> THEN "Err" ELSE IF kept = <<>> THEN "Ok" ELSE "Pending"

\* The end of SelectionSetFuture::poll: ready once field_futs is empty, with
\* the field errors if there are any and the output map otherwise.
selset_outcome(kept, errs) ==
    IF kept = <<>>
    THEN IF errs # <<>> THEN "Err" ELSE "Ok"
    ELSE "Pending"

\* The indexes whose output try_collect has taken from the stream.
Taken(v) == {p \in 1..Len(v.kids) : \E q \in 1..Len(v.outs) : v.outs[q].key = ToString(p)}

futures_unordered_ready(v) ==
    LET avail == {p \in 1..Len(v.kids) : Done(v.kids[p]) /\ p \notin Taken(v)} IN
    IF avail = {} THEN 0 ELSE CHOOSE p \in avail : \A q \in avail : p <= q

\* FuturesOrdered::poll_next: the element whose output the stream yields now,
\* the one at next_outgoing_index if it has completed; 0 when there is none.
futures_ordered_ready(v) ==
    IF v.next <= Len(v.kids) /\ Done(v.kids[v.next]) THEN v.next ELSE 0

RECURSIVE try_collect_null_on_error(_)
try_collect_null_on_error(v) ==
    IF Len(v.outs) = Len(v.kids) THEN Settle(v, "Ok", ListV([p \in 1..Len(v.outs) |-> v.outs[p].val]))
    ELSE LET p == futures_ordered_ready(v) IN
         IF p = 0 THEN v
         ELSE try_collect_null_on_error(
                [v EXCEPT !.outs = Append(@, [key |-> ToString(p),
                                              val |-> IF v.kids[p].st = "Err" THEN NullV
                                                      ELSE v.kids[p].val]),
                          !.next = @ + 1])

RECURSIVE try_collect_awaiting_all(_)
try_collect_awaiting_all(v) ==
    IF Len(v.outs) = Len(v.kids)
    THEN IF \E p \in 1..Len(v.kids) : v.kids[p].st = "Err"
         THEN Settle(v, "Err",
                     v.kids[CHOOSE p \in 1..Len(v.kids) :
                                /\ v.kids[p].st = "Err"
                                /\ \A q \in 1..(p - 1) : v.kids[q].st # "Err"].val)
         ELSE Settle(v, "Ok", ListV([p \in 1..Len(v.outs) |-> v.outs[p].val]))
    ELSE LET p == futures_ordered_ready(v) IN
         IF p = 0 THEN v
         ELSE try_collect_awaiting_all(
                [v EXCEPT !.outs = Append(@, [key |-> ToString(p), val |-> v.kids[p].val]),
                          !.next = @ + 1])

RECURSIVE try_collect(_)
\* try_collect over the stream: take the outputs it yields, stop at the first
\* Err, finish with the list when the stream has ended.
try_collect(v) ==
    IF Len(v.outs) = Len(v.kids) THEN Settle(v, "Ok", ListV([p \in 1..Len(v.outs) |-> v.outs[p].val]))
    ELSE LET p == futures_ordered_ready(v) IN
         IF p = 0 THEN v
         ELSE IF v.kids[p].st = "Err" THEN Settle(v, "Err", v.kids[p].val)
         ELSE try_collect([v EXCEPT !.outs = Append(@, [key |-> ToString(p), val |-> v.kids[p].val]),
                                    !.next = @ + 1])

object_ty_of_lenient(declared, type_name) ==
    CASE find_type_definition_by_name(declared) \in {"Object", "Interface"} ->
            [err |-> "", ty |-> IF find_type_definition_by_name(type_name) = "Object"
                                THEN type_name ELSE declared]
      [] OTHER -> [err |-> "type mismatch: object type expected", ty |-> ""]

\* `let object_ty = match field_type_def {..}`: the declared type when it is
\* an object type, the object type the resolver names when it is an interface,
\* an error for any other. type_name is "" for None.
object_ty_of(declared, type_name) ==
    LET kind == find_type_definition_by_name(declared) IN
    CASE kind = "Object" -> [err |-> "", ty |-> declared]
      [] kind = "Interface" /\ type_name = "" ->
            [err |-> "resolver did not return concrete type", ty |-> ""]
      [] kind = "Interface" /\ type_name # ""
            /\ find_type_definition_by_name(type_name) # "Object" ->
            [err |-> "concrete object type not found", ty |-> ""]
      [] kind = "Interface" /\ type_name # ""
            /\ find_type_definition_by_name(type_name) = "Object" ->
            [err |-> "", ty |-> type_name]
      [] OTHER -> [err |-> "type mismatch: object type expected", ty |-> ""]

\* What a future returns when the future it awaits has been polled: the
\* awaited future's result is its own.
Awaiting(f, stage, r) ==
    [f |-> [Settle(f, r.f.st, r.f.val) EXCEPT !.stage = stage, !.kids = <<r.f>>],
     calls |-> r.calls]

\* The end of SelectionSetFuture::poll, after the retain loop.
selset_finish(s, r) ==
    LET s1 == [s EXCEPT !.stage = "polled", !.kids = r.kept, !.outs = r.outs,
                        !.errs = r.errs]
        st == selset_outcome(r.kept, r.errs) IN
    [f |-> CASE r.panic -> Settle(s, "Panic", ErrV("not yet implemented"))
             [] st = "Err" -> Settle(s1, "Err", [ErrV("field errors") EXCEPT !.items = r.errs])
             [] st = "Ok" -> Settle(s1, "Ok", ObjectV(r.outs))
             [] OTHER -> s1,
     calls |-> r.calls]

RECURSIVE PollField(_, _), PollValue(_, _), PollObject(_, _), EnterObject(_, _, _),
          PollSelSet(_, _), RetainLoop(_, _, _, _, _), Retain(_, _, _, _, _),
          PollArray(_, _, _), PollElements(_, _, _), PolledElement(_, _, _)

\* The async block of resolve_field, polled: await the resolver's answer,
\* then await resolve_to_value on it.
PollField(f, cs) ==
    IF f.stage = "value"
    THEN Awaiting(f, "value", PollValue(f.kids[1], cs))
    ELSE
      LET name == f.field.name
          tgt == resolve_field_target(f.resolver, name)
          cs1 == IF tgt.user # "" /\ f.stage = "start"
                 THEN Append(cs, Call(f.path, tgt.user, name)) ELSE cs
          out == IF tgt.user # "" THEN UserResolve(tgt.user, name) ELSE tgt.out IN
      IF tgt.user # "" /\ ~Answered(f.path, name)
      THEN [f |-> [f EXCEPT !.stage = "resolving"], calls |-> cs1]
      ELSE IF out.st # "Ok"
      THEN [f |-> Settle(f, out.st, ErrV(out.err)), calls |-> cs1]
      ELSE Awaiting(f, "value",
                    PollValue(resolve_to_value(f.path, f.field, out.resolved), cs1))

\* The async block of resolve_to_value, polled.
PollValue(v, cs) ==
    CASE v.stage = "object" -> Awaiting(v, "object", PollSelSet(v.kids[1], cs))
      [] v.stage = "array" -> PollArray(v, 1, cs)
      [] v.stage = "typename" -> PollObject(v, cs)
      [] OTHER ->
            IF field_type_def(v.field.name) = "None"
            THEN [f |-> Settle(v, "Err", ErrV("field type definition not found")), calls |-> cs]
            ELSE CASE v.resolved.t = "Value" ->
                        [f |-> Settle(v, "Ok", v.resolved.v), calls |-> cs]
                   [] v.resolved.t = "Object" -> PollObject(v, cs)
                   [] OTHER ->
                        PollArray(
                            [v EXCEPT !.stage = "array",
                                      !.kids = [p \in 1..Len(v.resolved.elems) |->
                                          resolve_to_value(Append(v.path, ToString(p)),
                                                           v.field, v.resolved.elems[p])]],
                            1, cs)

\* The Resolved::Object arm: find the concrete object type, asking the
\* resolver when the declared type is an interface.
PollObject(v, cs) ==
    LET declared == field_type_def(v.field.name)
        kind == find_type_definition_by_name(declared)
        tpath == Append(v.path, "#type")
        asks == kind = "Interface" /\ v.resolved.r.kind = "User"
        cs1 == IF asks /\ v.stage = "start"
               THEN Append(cs, Call(tpath, v.resolved.r.name, "resolve_type_name")) ELSE cs
        object_ty == object_ty_of(declared, resolve_type_name(v.resolved.r)) IN
    IF asks /\ ~Answered(tpath, "resolve_type_name")
    THEN [f |-> [v EXCEPT !.stage = "typename"], calls |-> cs1]
    ELSE IF object_ty.err # ""
    THEN [f |-> Settle(v, "Err", ErrV(object_ty.err)), calls |-> cs1]
    ELSE    EnterObject(v, cs1,
                        SelectionSetFuture_new(v.path, sub_resolver(v.resolved.r, object_ty.ty),
                                               object_ty.ty, v.field.sels))

\* ... then build the nested SelectionSetFuture `s` and await it.
EnterObject(v, cs, s) ==
    IF Done(s) THEN [f |-> Settle(v, s.st, s.val), calls |-> cs]
    ELSE Awaiting(v, "object", PollSelSet(s, cs))

\* `field_futs.retain(..)`: poll every field future in map order; a finished
\* one leaves the map and its value or error is inserted under its key.
RetainLoop(todo, kept, outs, errs, cs) ==
    IF todo = <<>>
    THEN [kept |-> kept, outs |-> outs, errs |-> errs, calls |-> cs, panic |-> FALSE]
    ELSE Retain(Tail(todo), kept, outs, errs, PollField(Head(todo), cs))

Retain_keeps_settled(rest, kept, outs, errs, r) ==
    LET entry == [key |-> r.f.path[Len(r.f.path)], val |-> r.f.val] IN
    CASE r.f.st = "Panic" ->
            [kept |-> kept, outs |-> outs, errs |-> errs, calls |-> r.calls, panic |-> TRUE]
      [] r.f.st = "Ok" ->
            RetainLoop(rest, Append(kept, r.f), Append(outs, entry), errs, r.calls)
      [] r.f.st = "Err" -> RetainLoop(rest, kept, outs, Append(errs, entry), r.calls)
      [] OTHER -> RetainLoop(rest, Append(kept, r.f), outs, errs, r.calls)

Retain_until_pending(rest, kept, outs, errs, r) ==
    LET entry == [key |-> r.f.path[Len(r.f.path)], val |-> r.f.val] IN
    CASE r.f.st = "Panic" ->
            [kept |-> kept, outs |-> outs, errs |-> errs, calls |-> r.calls, panic |-> TRUE]
      [] r.f.st = "Ok" -> RetainLoop(rest, kept, Append(outs, entry), errs, r.calls)
      [] r.f.st = "Err" -> RetainLoop(rest, kept, outs, Append(errs, entry), r.calls)
      [] OTHER -> [kept |-> Append(kept, r.f) \o rest, outs |-> outs, errs |-> errs,
                   calls |-> r.calls, panic |-> FALSE]

Retain_null_on_error(rest, kept, outs, errs, r) ==
    LET key == r.f.path[Len(r.f.path)] IN
    CASE r.f.st = "Panic" ->
            [kept |-> kept, outs |-> outs, errs |-> errs, calls |-> r.calls, panic |-> TRUE]
      [] r.f.st = "Ok" ->
            RetainLoop(rest, kept, Append(outs, [key |-> key, val |-> r.f.val]), errs, r.calls)
      [] r.f.st = "Err" ->
            RetainLoop(rest, kept, Append(outs, [key |-> key, val |-> NullV]), errs, r.calls)
      [] OTHER -> RetainLoop(rest, Append(kept, r.f), outs, errs, r.calls)

\* The closure of retain on one polled field future.
Retain(rest, kept, outs, errs, r) ==
    LET entry == [key |-> r.f.path[Len(r.f.path)], val |-> r.f.val] IN
    CASE r.f.st = "Panic" ->
            [kept |-> kept, outs |-> outs, errs |-> errs, calls |-> r.calls, panic |-> TRUE]
      [] r.f.st = "Ok" -> RetainLoop(rest, kept, Append(outs, entry), errs, r.calls)
      [] r.f.st = "Err" -> RetainLoop(rest, kept, outs, Append(errs, entry), r.calls)
      [] OTHER -> RetainLoop(rest, Append(kept, r.f), outs, errs, r.calls)

\* SelectionSetFuture::poll
PollSelSet(s, cs) == selset_finish(s, RetainLoop(s.kids, <<>>, s.outs, s.errs, cs))

\* `futs.try_collect().await` on the FuturesOrdered of an array: the elements
\* not yet finished are polled in turn from element k on, try_collect taking
\* each output the stream yields in between.
PollArray(v, k, cs) == PollElements(try_collect(v), k, cs)

PollElements(v, k, cs) ==
    IF Done(v) \/ k > Len(v.kids) THEN [f |-> v, calls |-> cs]
    ELSE IF Done(v.kids[k]) THEN PollArray(v, k + 1, cs)
    ELSE PolledElement(v, k, PollValue(v.kids[k], cs))

PolledElement(v, k, r) ==
    IF r.f.st = "Panic"
    THEN [f |-> Settle(v, "Panic", r.f.val), calls |-> r.calls]
    ELSE PollArray([v EXCEPT !.kids[k] = r.f], k + 1, r.calls)

----------------------------------------------------------------------------
(* The selection sets field collection is checked on: one selection that   *)
(* may carry directives, followed by up to MaxTail further selections.     *)

DirArgs == {"absent", "noarg", "true", "false", "$yes", "$no", "$undef", "int"}
FragDirArgs == {"absent", "true", "false", "$no"}

DirPalette ==
    {WithDirs(Fld("name"), s, i) : s \in DirArgs, i \in DirArgs}
    \cup {WithDirs(Spread("DogFrag"), s, i) : s \in FragDirArgs, i \in FragDirArgs}
    \cup {WithDirs(Inline("Pet", <<Fld("name")>>), s, i) :
            s \in FragDirArgs, i \in FragDirArgs}
    \cup {WithDirs(Inline("", <<Fld("name")>>), s, i) :
            s \in FragDirArgs, i \in FragDirArgs}

StructPalette ==
    {Fld("dogBreed"), Aliased("n", "dogBreed"), Aliased("name", "peopleCount"),
     Spread("PetFrag"), Spread("NamedFrag"), Spread("Outer"), Spread("Cyc1"),
     Spread("SelfCyc"), Spread("EnumFrag"), Spread("GhostFrag"), Spread("Missing"),
     WithDirs(Spread("Missing"), "true", "absent"),
     Inline("Dog", <<Fld("dogBreed"), Spread("PetFrag")>>),
     Inline("Named", <<Aliased("n", "name")>>),
     Inline("Cat", <<WithDirs(Fld("catBreed"), "false", "true"), Fld("name")>>),
     Inline("Query", <<Inline("", <<Fld("peopleCount")>>)>>),
     Inline("Ghost", <<Fld("name")>>),
     Inline("Int", <<Fld("name")>>)}

RECURSIVE SeqsUpTo(_, _)
SeqsUpTo(S, n) ==
    IF n = 0 THEN {<<>>}
    ELSE LET shorter == SeqsUpTo(S, n - 1) IN
         shorter \cup {Append(q, x) : q \in shorter, x \in S}

SelectionSets ==
    {<<h>> \o t : h \in DirPalette \cup StructPalette,
                  t \in SeqsUpTo(StructPalette, MaxTail)}

----------------------------------------------------------------------------
(* SpecCollect: collect_fields called on a selection set and run to its    *)
(* end, one step of inner() at a time.                                     *)

\* No request is being executed.
ExecIdle ==
    /\ operations = <<>> /\ operation_name = <<>> /\ diags = <<>> /\ quirk = "none"
    /\ result = [st |-> "None", val |-> NullV] /\ query = <<>>
    /\ root = NoFut /\ calls = <<>>
    /\ ready = {} /\ instant = {} /\ faulty = {}
    /\ dropped = FALSE /\ first = [st |-> "None", val |-> NullV]

\* No function is called by itself.
CallIdle == call_in = <<>> /\ call_out = <<>>

\* collect_fields is not running.
CollectIdle == cf_sel_set = <<>> /\ cf_type = "Query" /\ cf = cf_start(<<>>)

CollectInit ==
    /\ cf_sel_set \in SelectionSets
    /\ cf_type \in ObjectTypes
    /\ cf = cf_start(cf_sel_set)
    /\ ExecIdle
    /\ CallIdle

\* inner() takes its next step.
CollectStep ==
    /\ cf.status = "running"
    /\ cf' = cf_step(cf, cf_type)
    /\ UNCHANGED <<cf_sel_set, cf_type>>
    /\ UNCHANGED exec_vars
    /\ UNCHANGED call_vars

CollectNext == CollectStep

SpecCollect == CollectInit /\ [][CollectNext]_vars

----------------------------------------------------------------------------
(* SpecExec: Executor::run on a request. The runtime polls the root future *)
(* of the spawned task; the user's resolver calls get their answers in any *)
(* order in between.                                                       *)

ExecQueries ==
    {<<Fld("peopleCount"), FldS("person", <<Fld("firstName"), Fld("age")>>)>>,
     <<FldS("person", <<Fld("__typename"), Fld("firstName")>>), Fld("peopleCount")>>,
     <<Fld("__typename"), Aliased("a", "peopleCount"), Aliased("b", "peopleCount")>>,
     <<FldS("person", <<FldS("pets", <<Fld("name"),
                                      Inline("Dog", <<Fld("dogBreed")>>),
                                      Inline("Cat", <<Fld("catBreed")>>)>>)>>)>>,
     <<FldS("litters", <<Fld("name")>>), Fld("peopleCount")>>,
     <<FldS("person", <<Fld("firstName")>>), FldS("person", <<Fld("age")>>),
       Spread("QueryFrag")>>,
     <<Fld("peopleCount"), Fld("bogus"), FldS("person", <<Fld("lastName")>>)>>,
     <<FldS("friend", <<Fld("name")>>), Fld("peopleCount")>>,
     <<FldS("__schema", <<FldS("types", <<Fld("name")>>)>>), Fld("peopleCount")>>,
     <<FldS("__type", <<Fld("name")>>), Fld("peopleCount")>>,
     <<FldS("__schema", <<Fld("description")>>), Fld("peopleCount")>>,
     <<Fld("peopleCount"), Spread("Missing")>>,
     <<FldS("person", <<Fld("firstName"), Spread("Missing")>>), Fld("peopleCount")>>}

\* An Option<String>: None or Some(name).
None == <<>>
Some(name) == <<name>>

Operation(name, sels) == [name |-> name, sels |-> sels]

\* A document of two named operations.
TwoOperations ==
    <<Operation(Some("A"), <<Fld("peopleCount")>>),
      Operation(Some("B"), <<FldS("person", <<Fld("firstName")>>)>>)>>

\* What validation may report: nothing, or diagnostics of any severity.
DiagChoices ==
    {<<>>, <<"warning">>, <<"error">>, <<"advice", "error">>, <<"warning", "advice">>}

\* The requests run is called with: each query as the document's only,
\* anonymous, operation, and documents and operation names that do or do not
\* match, with and without diagnostics.
Requests ==
    {[operations |-> <<Operation(None, q)>>, operation_name |-> None, diags |-> <<>>] :
        q \in ExecQueries}
    \cup {[operations |-> TwoOperations, operation_name |-> n, diags |-> d] :
            n \in {None, Some("A"), Some("B"), Some("Z")}, d \in DiagChoices}
    \cup {[operations |-> <<Operation(None, <<Fld("peopleCount")>>)>>,
           operation_name |-> n, diags |-> d] :
            n \in {None, Some("A"), Some("")}, d \in DiagChoices}

FaultCandidates ==
    {<<"QueryResolver", "peopleCount">>, <<"PersonResolver", "firstName">>,
     <<"CatResolver", "name">>, <<"DogResolver", "name">>}

Quirks ==
    {"none", "type_none", "type_unknown", "type_interface", "type_foreign",
     "value_for_object", "array_for_scalar", "object_for_scalar", "value_for_list",
     "object_for_list"}

InstantChoices ==
    {{}, {"peopleCount", "resolve_type_name"},
     {"peopleCount", "person", "litters", "pets", "firstName", "lastName", "age",
      "name", "dogBreed", "catBreed", "bogus", "friend", "__type", "__typename",
      "resolve_type_name"}}

\* The resolver Executor::run executes the root selection set with: the
\* user's root resolver inside IspRootResolver inside IspObjectResolver.
query_resolver == IspObjectResolver("Query", IspRootResolver(UserResolver("QueryResolver")))

has_errors_any_diagnostic == diags # <<>>

\* `diags.iter().filter(|d| d.data.is_error()).count() > 0`
has_errors == \E p \in 1..Len(diags) : diags[p] = "error"

find_operation_or_first(all_ops, name) ==
    IF \E p \in 1..Len(all_ops) : all_ops[p].name = name
    THEN CHOOSE p \in 1..Len(all_ops) :
            /\ all_ops[p].name = name
            /\ \A q \in 1..(p - 1) : all_ops[q].name # name
    ELSE 1

\* `all_ops.iter().find(|op| op.name() == operation_name)`: the index of the
\* first operation whose name is operation_name, 0 when there is none.
find_operation(all_ops, name) ==
    IF \E p \in 1..Len(all_ops) : all_ops[p].name = name
    THEN CHOOSE p \in 1..Len(all_ops) :
            /\ all_ops[p].name = name
            /\ \A q \in 1..(p - 1) : all_ops[q].name # name
    ELSE 0

\* What run returns: nothing yet, Ok(value) or Err(error).
NoResult == [st |-> "None", val |-> NullV]
Returned(st, val) == [st |-> st, val |-> val]

\* What run returns for the outcome of the spawned task: the task's result,
\* or the JoinError of a task that panicked.
task_result(f) ==
    CASE f.st = "Pending" -> NoResult
      [] f.st = "Panic" -> Returned("Err", ErrV("task panicked"))
      [] OTHER -> Returned(f.st, f.val)

ExecInit ==
    /\ \E r \in Requests :
        /\ operations = r.operations
        /\ operation_name = r.operation_name
        /\ diags = r.diags
    /\ instant \in InstantChoices
    /\ faulty \in {F \in SUBSET FaultCandidates : Cardinality(F) <= MaxFaults}
    /\ quirk \in Quirks
    /\ quirk = "none" \/ faulty = {}
    /\ result = NoResult /\ query = <<>>
    /\ root = NoFut /\ calls = <<>> /\ ready = {}
    /\ dropped = FALSE /\ first = NoResult
    /\ CollectIdle
    /\ CallIdle

\* Executor::run up to the first poll of the root future: validation, the
\* choice of the operation, the root selection-set future.
Start ==
    /\ root.kind = "none" /\ result.st = "None"
    /\ LET op == find_operation(operations, operation_name)
           fut == SelectionSetFuture_new(<<>>, query_resolver, "Query", operations[op].sels) IN
       CASE has_errors ->
                /\ result' = Returned("Err", ErrV("graphql had errors"))
                /\ UNCHANGED <<query, root>>
         [] ~has_errors /\ op = 0 ->
                /\ result' = Returned("Err", ErrV("query operation not found"))
                /\ UNCHANGED <<query, root>>
         [] OTHER ->
                /\ query' = operations[op].sels
                /\ root' = fut
                /\ result' = task_result(fut)
    /\ UNCHANGED <<calls, ready>>
    /\ UNCHANGED input_vars
    /\ UNCHANGED <<dropped, first>>
    /\ UNCHANGED cf_vars
    /\ UNCHANGED call_vars

\* The runtime polls the root future (`query_fut.await`).
Poll ==
    /\ root.kind = "selset" /\ root.st = "Pending"
    /\ LET r == PollSelSet(root, calls) IN
       /\ root' = r.f
       /\ calls' = r.calls
       /\ result' = IF dropped THEN result ELSE task_result(r.f)
    /\ UNCHANGED <<query, ready>>
    /\ UNCHANGED input_vars
    /\ UNCHANGED <<dropped, first>>
    /\ UNCHANGED cf_vars
    /\ UNCHANGED call_vars

\* A suspended call of a user resolver gets its answer.
Complete ==
    /\ root.st = "Pending"
    /\ \E p \in 1..Len(calls) :
        /\ ~Answered(calls[p].path, calls[p].name)
        /\ ready' = ready \cup {calls[p].path}
    /\ UNCHANGED <<result, query, root, calls>>
    /\ UNCHANGED input_vars
    /\ UNCHANGED <<dropped, first>>
    /\ UNCHANGED cf_vars
    /\ UNCHANGED call_vars

ExecNext == Start \/ Poll \/ Complete

\* run has been called and its task has not started: ENABLED <<Start>>_vars.
StartEnabled == root.kind = "none" /\ result.st = "None"

\* WF_vars(Start), with StartEnabled for ENABLED <<Start>>_vars.
WeakFairStart == []<>(~StartEnabled) \/ []<><<Start>>_vars

\* A poll of the root future would get somewhere: ENABLED <<Poll>>_vars.
PollEnabled ==
    /\ root.kind = "selset" /\ root.st = "Pending"
    /\ LET r == PollSelSet(root, calls) IN r.f # root \/ r.calls # calls

\* WF_vars(Poll), with PollEnabled for ENABLED <<Poll>>_vars.
WeakFairPoll == []<>(~PollEnabled) \/ []<><<Poll>>_vars

\* The runtime runs the spawned task and polls it again whenever it has been
\* woken, and every call of a resolver of the user returns in the end.
Fairness == WeakFairStart /\ WeakFairPoll /\ WF_vars(Complete)

\* SpecLive: a request executed by a runtime that keeps polling, with
\* resolvers that all return.
SpecLive == ExecInit /\ [][ExecNext]_vars /\ Fairness

\* The caller drops the future run returned while it awaits the spawned
\* task: the JoinHandle is dropped with it, the task is not.
Drop ==
    /\ root.kind = "selset" /\ result.st = "None" /\ ~dropped
    /\ dropped' = TRUE
    /\ UNCHANGED <<result, query, root, calls, ready, first>>
    /\ UNCHANGED input_vars
    /\ UNCHANGED cf_vars
    /\ UNCHANGED call_vars

DropNext == Start \/ Poll \/ Complete \/ Drop

\* SpecDrop: a request whose caller may give up waiting.
SpecDrop == ExecInit /\ [][DropNext]_vars

\* run is called once more with the same request and the same resolvers
\* after it has returned; only the timing of the resolvers differs.
Again ==
    /\ result.st # "None" /\ first.st = "None"
    /\ first' = result
    /\ result' = NoResult /\ query' = <<>> /\ root' = NoFut
    /\ calls' = <<>> /\ ready' = {}
    /\ instant' \in InstantChoices
    /\ UNCHANGED <<operations, operation_name, diags, quirk, faulty, dropped>>
    /\ UNCHANGED cf_vars
    /\ UNCHANGED call_vars

TwiceNext == Start \/ Poll \/ Complete \/ Again

\* SpecTwice: the same request run twice.
SpecTwice == ExecInit /\ [][TwiceNext]_vars

SpecExec == ExecInit /\ [][ExecNext]_vars

----------------------------------------------------------------------------
(* resolver.rs: the arguments of a field as a resolver reads them from its *)
(* Ctx. A value, of the document (hir::Value) or constant (ConstValue), is *)
(* a record: its variant `t`, its text `s`, its number `n`, its elements.  *)
(* A number is two limbs <<hi, lo>> standing for hi * 65536 + lo, so that  *)
(* integers wider than 32 bits can be written.                             *)

Val(t, str, n, items) == [t |-> t, s |-> str, n |-> n, items |-> items]

\* hir::Value
HString(str) == Val("String", str, <<0, 0>>, <<>>)
HInt(n) == Val("Int", "", n, <<>>)
HFloat(str) == Val("Float", str, <<0, 0>>, <<>>)
HBoolean(b) == Val("Boolean", IF b THEN "true" ELSE "false", <<0, 0>>, <<>>)
HEnum(str) == Val("Enum", str, <<0, 0>>, <<>>)
HNull == Val("Null", "", <<0, 0>>, <<>>)
HVariable(name) == Val("Variable", name, <<0, 0>>, <<>>)
HList(items) == Val("List", "", <<0, 0>>, items)
\* An object is its fields in order, a field its key and its one value.
HObject(fields) == Val("Object", "", <<0, 0>>, fields)
HField(key, value) == Val("Field", key, <<0, 0>>, <<value>>)

\* ConstValue; a Number is an integer ("i64") or a float ("f64").
CString(str) == Val("String", str, <<0, 0>>, <<>>)
CInteger(n) == Val("Number", "i64", n, <<>>)
CFloat(str) == Val("Number", "f64", <<0, 0>>, <<Val("Digits", str, <<0, 0>>, <<>>)>>)
CBoolean(str) == Val("Boolean", str, <<0, 0>>, <<>>)
CEnum(str) == Val("Enum", str, <<0, 0>>, <<>>)
CNull == Val("Null", "", <<0, 0>>, <<>>)
CList(items) == Val("List", "", <<0, 0>>, items)
CObject(fields) == Val("Object", "", <<0, 0>>, fields)
CField(key, value) == Val("Field", key, <<0, 0>>, <<value>>)

\* Ctx::variables of the request.
ctx_variables ==
    [name |-> CString("Coco"), count |-> CInteger(<<0, 7>>), big |-> CInteger(<<76293, 61952>>),
     ratio |-> CFloat("1.5"), flag |-> CBoolean("true")]

\* A Result: Ok(value), Err(message), or a panic where the code unwraps.
ArgOk(v) == [st |-> "Ok", v |-> v, err |-> ""]
ArgErr(msg) == [st |-> "Err", v |-> CNull, err |-> msg]
ArgPanic == [st |-> "Panic", v |-> CNull, err |-> "called unwrap() on an Err or None value"]

\* `to_i32_checked()`: Some for an integer that fits 32 bits.
fits_i32(n) == n[1] >= -32768 /\ n[1] <= 32767

RECURSIVE resolve_vars(_)
\* Ctx::resolve_vars: the value with its variables replaced by what the map
\* holds. A variable the map does not hold is an Err at the top and an
\* unwrap() of that Err inside an object or a list.
resolve_vars(arg_value) ==
    CASE arg_value.t = "Variable" ->
            IF arg_value.s \in DOMAIN ctx_variables
            THEN ArgOk(ctx_variables[arg_value.s])
            ELSE ArgErr("undefined variable")
      [] arg_value.t = "Object" ->
            LET rs == [p \in 1..Len(arg_value.items) |->
                          resolve_vars(arg_value.items[p].items[1])] IN
            IF \E p \in 1..Len(rs) : rs[p].st # "Ok" THEN ArgPanic
            ELSE ArgOk(CObject([p \in 1..Len(rs) |->
                                   CField(arg_value.items[p].s, rs[p].v)]))
      [] arg_value.t = "List" ->
            LET rs == [p \in 1..Len(arg_value.items) |-> resolve_vars(arg_value.items[p])] IN
            IF \E p \in 1..Len(rs) : rs[p].st # "Ok" THEN ArgPanic
            ELSE ArgOk(CList([p \in 1..Len(rs) |-> rs[p].v]))
      [] arg_value.t = "Boolean" -> ArgOk(CBoolean(arg_value.s))
      [] arg_value.t = "String" -> ArgOk(CString(arg_value.s))
      [] arg_value.t = "Int" ->
            IF fits_i32(arg_value.n) THEN ArgOk(CInteger(arg_value.n)) ELSE ArgPanic
      [] arg_value.t = "Float" -> ArgOk(CFloat(arg_value.s))
      [] arg_value.t = "Enum" -> ArgOk(CEnum(arg_value.s))
      [] OTHER -> ArgOk(CNull)

\* TryFrom<CtxArg> for String, i32, f64 and bool.
try_from(target, value) ==
    CASE target = "String" ->
            IF value.t = "String" THEN ArgOk(value)
            ELSE ArgErr("invalid argument type, expected string")
      [] target = "i32" ->
            IF value.t = "Number" /\ value.s = "i64"
            THEN IF fits_i32(value.n) THEN ArgOk(value)
                 ELSE ArgErr("out of range integral type conversion attempted")
            ELSE ArgErr("invalid argument type, expected integer")
      [] target = "f64" ->
            IF value.t = "Number" /\ value.s = "f64" THEN ArgOk(value)
            ELSE ArgErr("invalid argument type, expected float")
      [] OTHER ->
            IF value.t = "Boolean" THEN ArgOk(value)
            ELSE ArgErr("invalid argument type, expected bool")

\* `self.field.arguments().into_iter().find(|a| a.name() == name)`: the index
\* of the first argument of the name, 0 when there is none.
find_argument(arguments, name) ==
    IF \E p \in 1..Len(arguments) : arguments[p].name = name
    THEN CHOOSE p \in 1..Len(arguments) :
            /\ arguments[p].name = name
            /\ \A q \in 1..(p - 1) : arguments[q].name # name
    ELSE 0

\* Ctx::try_arg::<T>(name)
try_arg(arguments, target, name) ==
    LET p == find_argument(arguments, name) IN
    IF p = 0 THEN ArgErr("argument not found")
    ELSE LET arg_const_v == resolve_vars(arguments[p].value) IN
         IF arg_const_v.st # "Ok" THEN arg_const_v
         ELSE LET converted == try_from(target, arg_const_v.v) IN
              IF converted.st = "Ok" THEN converted
              ELSE ArgErr("argument conversion error")

\* Ctx::arg::<T>(name): Some(v), None, or the panic of try_arg.
Ctx_arg(arguments, target, name) ==
    LET r == try_arg(arguments, target, name) IN
    CASE r.st = "Ok" -> [st |-> "Some", v |-> r.v]
      [] r.st = "Err" -> [st |-> "None", v |-> CNull]
      [] OTHER -> [st |-> "Panic", v |-> CNull]

\* The argument values a field is given in the checked calls.
ArgValues ==
    {HString("Coco"), HInt(<<0, 7>>), HInt(<<76293, 61952>>), HInt(<<-1, 65535>>),
     HInt(<<32767, 65535>>), HInt(<<32768, 0>>), HInt(<<-32768, 0>>),
     HInt(<<-32769, 65535>>), HFloat("1.5"), HBoolean(TRUE),
     HEnum("TABBY"), HNull, HVariable("name"), HVariable("count"), HVariable("big"),
     HVariable("ratio"), HVariable("flag"), HVariable("missing"),
     HList(<<HInt(<<0, 1>>), HVariable("count")>>), HList(<<HVariable("missing")>>),
     HObject(<<HField("lives", HVariable("count"))>>),
     HObject(<<HField("lives", HVariable("missing"))>>),
     HList(<<HObject(<<HField("lives", HList(<<HVariable("missing")>>))>>)>>)}

Targets == {"String", "i32", "f64", "bool"}

\* A resolver asks its Ctx for the argument `name` as a T, for a field given
\* one argument `id`.
ArgCalls ==
    {[fn |-> "arg", arguments |-> <<[name |-> "id", value |-> v]>>, target |-> T,
      name |-> n] : v \in ArgValues, T \in Targets, n \in {"id", "first"}}

ArgInit ==
    /\ call_in \in ArgCalls
    /\ call_out = <<>>
    /\ CollectIdle
    /\ ExecIdle

\* The resolver calls ctx.try_arg(name) and ctx.arg(name).
ArgCall ==
    /\ call_in.fn = "arg" /\ call_out = <<>>
    /\ call_out' = <<try_arg(call_in.arguments, call_in.target, call_in.name),
                     Ctx_arg(call_in.arguments, call_in.target, call_in.name)>>
    /\ UNCHANGED call_in
    /\ UNCHANGED cf_vars
    /\ UNCHANGED exec_vars

ArgNext == ArgCall

\* SpecArg: a resolver reading an argument of its field.
SpecArg == ArgInit /\ [][ArgNext]_vars

----------------------------------------------------------------------------
(* introspection.rs: a field of __Type asked of an IspTypeResolver.        *)

\* The hir::Type of the resolver: a named type, bare or wrapped.
TypeWrappers ==
    {<<>>, <<"List">>, <<"NonNull">>, <<"NonNull", "List">>, <<"List", "NonNull">>}

\* The fields of __Type, and a name that is none of them.
TypeFields ==
    {"kind", "name", "description", "fields", "interfaces", "possibleTypes",
     "enumValues", "inputFields", "ofType", "specifiedByURL", "bogus"}

TypeCalls ==
    {[fn |-> "resolve_field", resolver |-> IspTypeResolverOf(w, n), name |-> f] :
        w \in TypeWrappers, n \in DOMAIN type_definitions_by_name \cup {"Ghost"},
        f \in TypeFields}

TypeInit ==
    /\ call_in \in TypeCalls
    /\ call_out = <<>>
    /\ CollectIdle
    /\ ExecIdle

\* The executor asks the resolver for the field.
TypeCall ==
    /\ call_in.fn = "resolve_field" /\ call_out = <<>>
    /\ call_out' = <<IspTypeResolver_resolve_field(call_in.resolver, call_in.name)>>
    /\ UNCHANGED call_in
    /\ UNCHANGED cf_vars
    /\ UNCHANGED exec_vars

TypeNext == TypeCall

\* SpecType: one field of one __Type resolver.
SpecType == TypeInit /\ [][TypeNext]_vars

----------------------------------------------------------------------------
(* resolver.rs: a method of ObjectResolver called on a resolver T of the   *)
(* user and on Arc<T>.                                                     *)

\* resolver.resolve_field(name), awaited to its end.
ObjectResolver_resolve_field(resolver, name) ==
    LET tgt == resolve_field_target(resolver, name) IN
    IF tgt.user # "" THEN UserResolve(tgt.user, name) ELSE tgt.out

\* resolver.resolve_type_name(), awaited to its end.
ObjectResolver_resolve_type_name(resolver) ==
    ROk(RValue(Scalar(resolve_type_name(resolver))))

\* A method of the trait called on `resolver`.
ObjectResolver_call(resolver, method, name) ==
    IF method = "resolve_type_name" THEN ObjectResolver_resolve_type_name(resolver)
    ELSE ObjectResolver_resolve_field(resolver, name)

UserResolvers == {"QueryResolver", "PersonResolver", "DogResolver", "CatResolver"}

ArcCalls ==
    {[fn |-> "resolve_field", resolver |-> UserResolver(r), name |-> f] :
        r \in UserResolvers,
        f \in {"peopleCount", "person", "pets", "litters", "friend", "firstName",
               "lastName", "age", "name", "dogBreed", "catBreed", "bogus"}}
    \cup {[fn |-> "resolve_type_name", resolver |-> UserResolver(r), name |-> ""] :
            r \in UserResolvers}

ArcInit ==
    /\ call_in \in ArcCalls
    /\ call_out = <<>>
    /\ quirk \in Quirks
    /\ operations = <<>> /\ operation_name = <<>> /\ diags = <<>>
    /\ result = [st |-> "None", val |-> NullV] /\ query = <<>>
    /\ root = NoFut /\ calls = <<>>
    /\ ready = {} /\ instant = {} /\ faulty = {}
    /\ dropped = FALSE /\ first = [st |-> "None", val |-> NullV]
    /\ CollectIdle

\* The method is called on the resolver and on an Arc holding it.
ArcCall ==
    /\ call_in.fn \in {"resolve_field", "resolve_type_name"} /\ call_out = <<>>
    /\ call_out' = <<ObjectResolver_call(call_in.resolver, call_in.fn, call_in.name),
                     ObjectResolver_call(ArcResolver(call_in.resolver), call_in.fn,
                                         call_in.name)>>
    /\ UNCHANGED call_in
    /\ UNCHANGED cf_vars
    /\ UNCHANGED exec_vars

ArcNext == ArcCall

\* SpecArc: one method of ObjectResolver on T and on Arc<T>.
SpecArc == ArcInit /\ [][ArcNext]_vars

----------------------------------------------------------------------------
(* Field collection: what the claims compare the finished call with.       *)

FirstSel == cf_sel_set[1]
RestSels == SubSeq(cf_sel_set, 2, Len(cf_sel_set))
Finished == cf.status # "running"

\* The directive rule as stated: omitted when @skip(if: true) or @include(if: false).
Omitted(sel) == sel.skip = "true" \/ sel.include = "false"

RECURSIVE LiteralOnly(_)
\* Every directive argument in the selection set is a boolean literal.
LiteralOnly(sels) ==
    \A p \in 1..Len(sels) :
        /\ sels[p].skip \in {"absent", "true", "false"}
        /\ sels[p].include \in {"absent", "true", "false"}
        /\ LiteralOnly(sels[p].sels)

RECURSIVE Strip(_)
\* The selection set with the omitted selections deleted and the directives of
\* the others erased.
Strip(sels) ==
    IF sels = <<>> THEN <<>>
    ELSE LET sel == sels[1]
             rest == Strip(SubSeq(sels, 2, Len(sels))) IN
         IF Omitted(sel) THEN rest
         ELSE <<[sel EXCEPT !.skip = "absent", !.include = "absent",
                            !.sels = Strip(sel.sels)]>> \o rest

RECURSIVE Literal(_)
\* The selection set with each reference to a defined variable replaced by the
\* variable's value.
Literal(sels) ==
    LET Value(arg) == CASE arg = "$yes" -> "true"
                        [] arg = "$no" -> "false"
                        [] OTHER -> arg IN
    [p \in 1..Len(sels) |->
        [sels[p] EXCEPT !.skip = Value(@), !.include = Value(@),
                        !.sels = Literal(@)]]

RECURSIVE UsesVariable(_)
UsesVariable(sels) ==
    \E p \in 1..Len(sels) :
        \/ sels[p].skip \in {"$yes", "$no"}
        \/ sels[p].include \in {"$yes", "$no"}
        \/ UsesVariable(sels[p].sels)

RECURSIVE UsesUndefined(_)
UsesUndefined(sels) ==
    \E p \in 1..Len(sels) :
        \/ sels[p].skip = "$undef"
        \/ sels[p].include = "$undef"
        \/ UsesUndefined(sels[p].sels)

\* A result with the directives of its field nodes erased, so that only the
\* keys, the grouping and the fields' identity are compared.
Bare(res) ==
    [status |-> res.status,
     grouped |-> [p \in 1..Len(res.grouped) |->
        [key |-> res.grouped[p].key,
         fields |-> [q \in 1..Len(res.grouped[p].fields) |->
            [res.grouped[p].fields[q] EXCEPT
                !.skip = "absent", !.include = "absent", !.sels = Strip(@)]]]]]

Collected(sels) == Bare(cf_result(collect_fields(sels, cf_type)))

\* The schema's own answer to "type condition T applies to concrete type C".
PossibleTypes(T) ==
    CASE T \in ObjectTypes -> {T}
      [] T = "Pet" -> {"Dog", "Cat"}
      [] T = "Named" -> {"Person", "Dog"}
      [] OTHER -> {}

HeadIsConditioned ==
    /\ FirstSel.skip = "absent" /\ FirstSel.include = "absent"
    /\ \/ FirstSel.kind = "FragmentSpread" /\ FirstSel.name \in DOMAIN fragments
       \/ FirstSel.kind = "InlineFragment" /\ FirstSel.cond # ""

HeadCond == IF FirstSel.kind = "FragmentSpread" THEN fragments[FirstSel.name].cond ELSE FirstSel.cond
HeadSels == IF FirstSel.kind = "FragmentSpread" THEN fragments[FirstSel.name].sels ELSE FirstSel.sels

\* C6: a selection is omitted from field collection exactly when it carries
\* @skip(if: true) or @include(if: false) (with both present it is kept only
\* when skip is false and include is true, with neither it is kept), and an
\* omitted fragment contributes nothing: collecting a selection set whose
\* directive arguments are literals gives what collecting it gives with the
\* omitted selections deleted and all directives erased.
C6_SkipInclude ==
    (Finished /\ LiteralOnly(cf_sel_set))
        => Bare(cf_result(cf)) = Collected(Strip(cf_sel_set))

\* Both directives present on a fragment spread that is kept and contributes.
C6_Witness ==
    /\ cf.status = "ok" /\ cf_type = "Dog"
    /\ FirstSel.kind = "FragmentSpread" /\ FirstSel.skip = "false" /\ FirstSel.include = "true"
    /\ \E p \in 1..Len(cf.grouped) : cf.grouped[p].key = "dogBreed"

\* C7: an `if` argument that is a variable reference is resolved through the
\* variables map and applied as the literal would be: collecting the
\* selection set gives what collecting it gives with each variable replaced by
\* its value.
C7_VariableAsLiteral ==
    (Finished /\ UsesVariable(cf_sel_set) /\ ~UsesUndefined(cf_sel_set))
        => Bare(cf_result(cf)) = Collected(Literal(cf_sel_set))

\* C8: a fragment spread or inline fragment with type condition T contributes
\* its fields exactly when T applies to the concrete type C (T is the object
\* type C, or an interface or union that C satisfies): the result is that of
\* the fragment's selections written in place when T applies, and that of the
\* other selections alone (or no grouping at all) when it does not.
C8_TypeCondition ==
    (Finished /\ HeadIsConditioned)
        => IF cf_type \in PossibleTypes(HeadCond)
           THEN Bare(cf_result(cf)) = Collected(HeadSels \o RestSels)
           ELSE \/ Bare(cf_result(cf)) = Collected(RestSels)
                \/ /\ HeadCond \notin {"Query", "Person", "Dog", "Cat", "Pet", "Named"}
                   /\ cf.status = "err"

\* An inline fragment on the union Named collected for a Person.
C8_Witness ==
    /\ cf.status = "ok" /\ cf_type = "Person"
    /\ FirstSel.kind = "InlineFragment" /\ FirstSel.cond = "Named"
    /\ \E p \in 1..Len(cf.grouped) : cf.grouped[p].key = "n"

\* C9: an inline fragment without a type condition contributes the fields of
\* its selection set as if they were written in place, subject only to its
\* own @skip/@include.
C9_UnconditionedInline ==
    (/\ Finished
     /\ FirstSel.kind = "InlineFragment" /\ FirstSel.cond = ""
     /\ LiteralOnly(cf_sel_set))
        => Bare(cf_result(cf)) =
             Collected(Strip(IF Omitted(FirstSel) THEN RestSels ELSE FirstSel.sels \o RestSels))

\* The fragments whose selection sets the running activations are in.
FragmentPath == SelectSeq([p \in 1..Len(cf.stack) |-> cf.stack[p].frag],
                          LAMBDA f : f # "")

\* C10: collect_fields terminates on every input and never enters the same
\* fragment definition twice on one path, also when the fragment spreads of
\* the document form a cycle.
C10_NoReentry ==
    /\ \A p, q \in 1..Len(FragmentPath) : p # q => FragmentPath[p] # FragmentPath[q]
    /\ cf.status # "overflow"

RECURSIVE Conditioned(_)
\* No inline fragment of the selection set lacks a type condition.
Conditioned(sels) ==
    \A p \in 1..Len(sels) :
        /\ ~(sels[p].kind = "InlineFragment" /\ sels[p].cond = "")
        /\ Conditioned(sels[p].sels)

RECURSIVE Expand(_, _)
\* The field nodes of a selection set in document order for concrete type C,
\* each fragment that applies replaced by its selections, omitted selections
\* left out.
Expand(sels, C) ==
    IF sels = <<>> THEN <<>>
    ELSE LET sel == sels[1]
             rest == Expand(SubSeq(sels, 2, Len(sels)), C) IN
         CASE Omitted(sel) -> rest
           [] sel.kind = "Field" -> <<sel>> \o rest
           [] sel.kind = "FragmentSpread" ->
                IF sel.name \in DOMAIN fragments /\ C \in PossibleTypes(fragments[sel.name].cond)
                THEN Expand(fragments[sel.name].sels, C) \o rest ELSE rest
           [] OTHER ->
                IF C \in PossibleTypes(sel.cond) THEN Expand(sel.sels, C) \o rest ELSE rest

\* The response key as stated: the alias if there is one, else the field name.
KeyOf(node) == IF node.alias = "" THEN node.name ELSE node.alias

\* The distinct keys of a sequence of field nodes, by first occurrence.
FirstSeen(nodes) ==
    SelectSeq([p \in 1..Len(nodes) |->
                  IF \E q \in 1..(p - 1) : KeyOf(nodes[q]) = KeyOf(nodes[p])
                  THEN "" ELSE KeyOf(nodes[p])],
              LAMBDA k : k # "")

\* The field nodes grouped by response key: keys by first occurrence, each
\* key with its nodes in the order met.
GroupByKey(nodes) ==
    LET keys == FirstSeen(nodes) IN
    [p \in 1..Len(keys) |->
        [key |-> keys[p],
         fields |-> SelectSeq(nodes, LAMBDA n : KeyOf(n) = keys[p])]]

\* C11: collect_fields files each field that is not omitted under its alias,
\* or under its name when it has no alias; the keys are in the order of their
\* first occurrence in the document with fragments expanded in place, and
\* each key holds all its field nodes in the order they were met.
C11_ResponseKeys ==
    (cf.status = "ok" /\ LiteralOnly(cf_sel_set) /\ Conditioned(cf_sel_set))
        => cf.grouped = GroupByKey(Expand(cf_sel_set, cf_type))

\* For a Dog, `...DogFrag n: dogBreed`: two keys, and under `n` the aliased
\* `name` of the fragment followed by the aliased `dogBreed`.
C11_Witness ==
    /\ cf.status = "ok" /\ cf_type = "Dog" /\ Len(cf.grouped) = 2
    /\ cf.grouped[1].key = "dogBreed" /\ cf.grouped[2].key = "n"
    /\ Len(cf.grouped[2].fields) = 2
    /\ cf.grouped[2].fields[1].name = "name"
    /\ cf.grouped[2].fields[2].name = "dogBreed"


----------------------------------------------------------------------------
(* Execution: what the claims say of the futures.                          *)

Keys(entries) == [p \in 1..Len(entries) |-> entries[p].key]
KeySet(entries) == {entries[p].key : p \in 1..Len(entries)}

\* The map field collection returns for a selection set: empty when it
\* returns an error.
GroupsOf(sel_set, object_ty) ==
    IF collect_fields(sel_set, object_ty).status = "ok"
    THEN collect_fields(sel_set, object_ty).grouped ELSE <<>>

\* Field collection of the root selection set.
RootGroups == GroupsOf(query, "Query")

RECURSIVE Futures(_)
\* A future and all the futures it owns.
Futures(f) == {f} \cup UNION {Futures(f.kids[p]) : p \in 1..Len(f.kids)}

SelSets == {f \in Futures(root) : f.kind = "selset"}
Arrays == {f \in Futures(root) : f.kind = "value" /\ f.stage = "array"}

\* C1: the keys of a response object are in the first-seen order of the
\* response keys of field collection, whatever the order in which the field
\* tasks complete.
C1_KeyOrder == root.st = "Ok" => Keys(root.val.items) = Keys(RootGroups)

RECURSIVE NamesIn(_)
\* A response value reduced to the `name` of each object in it, lists kept.
NamesIn(val) ==
    IF val.t = "List" THEN [p \in 1..Len(val.items) |-> NamesIn(val.items[p].val)]
    ELSE LET p == CHOOSE q \in 1..Len(val.items) : val.items[q].key = "name" IN
         <<val.items[p].val.v>>

RECURSIVE NamesOf(_)
\* What the user's resolvers answer for `name` on each object of an Array.
NamesOf(resolved) ==
    IF resolved.t = "Array"
    THEN [p \in 1..Len(resolved.elems) |-> NamesOf(resolved.elems[p])]
    ELSE <<UserResolve(resolved.r.name, "name").resolved.v.v>>

\* C2: the response list of a list field has the length and the order of the
\* Array the resolver returned, element i being the resolution of element i,
\* whatever the order in which the elements complete, nested arrays included.
C2_ListOrder ==
    /\ \A a \in Arrays :
        /\ Len(a.kids) = Len(a.resolved.elems)
        /\ \A p \in 1..Len(a.kids) : a.kids[p].resolved = a.resolved.elems[p]
        /\ \A p \in 1..Len(a.outs) : a.outs[p].val = a.kids[p].val
        /\ a.st = "Ok" =>
            /\ Len(a.val.items) = Len(a.resolved.elems)
            /\ NamesIn(a.val) = NamesOf(a.resolved)
    /\ (root.st = "Ok" /\ "litters" \in KeySet(root.val.items)) =>
        LET p == CHOOSE q \in 1..Len(root.val.items) : root.val.items[q].key = "litters" IN
        NamesIn(root.val.items[p].val)
            = NamesOf(UserResolve("QueryResolver", "litters").resolved)

\* The list of lists came back whole, its last element having got its answer
\* before the first.
C2_Witness ==
    /\ root.st = "Ok" /\ "litters" \in KeySet(root.val.items)
    /\ \E p, q \in 1..Len(calls) :
        /\ p < q
        /\ calls[p].path = <<"litters", "1", "1", "name">>
        /\ calls[q].path = <<"litters", "2", "1", "name">>
        /\ "name" \notin instant

\* C3: a selection-set execution returns a result only after every one of its
\* field tasks has settled, an errored task not completing it while siblings
\* are pending; the result is an error if a field task errored and otherwise
\* the object holding the value of every field.
C3_AllSettled ==
    \A s \in SelSets :
        /\ s.st \in {"Ok", "Err"} /\ s.stage = "polled" =>
            /\ s.kids = <<>>
            /\ s.st = "Err" <=> s.errs # <<>>
            /\ s.st = "Ok" => s.val = ObjectV(s.outs)
        /\ s = root /\ s.st = "Ok" => KeySet(s.val.items) = KeySet(RootGroups)
        /\ s = root /\ s.st = "Err" =>
            KeySet(s.outs) \cup KeySet(s.errs) = KeySet(RootGroups)

\* A field task has errored and the execution waits for its siblings.
C3_Witness ==
    /\ root.st = "Pending" /\ root.errs # <<>> /\ root.kids # <<>>

\* C4: for every object reached, `__typename` yields the name of the object's
\* concrete type and the user's resolver for the object is never asked for it.
C4_Typename == \A p \in 1..Len(calls) : calls[p].name # "__typename"

\* C5: one field task per response key of field collection, built from the
\* first field node of the key's group, and resolve_field called at most once
\* per response key, also for a key selected several times.
C5_OneTaskPerKey ==
    /\ root.stage = "start" =>
        /\ Keys([p \in 1..Len(root.kids) |->
                    [key |-> root.kids[p].path[Len(root.kids[p].path)]]])
             = Keys(RootGroups)
        /\ \A p \in 1..Len(root.kids) : root.kids[p].field = RootGroups[p].fields[1]
    /\ \A p, q \in 1..Len(calls) :
        (calls[p].path = calls[q].path /\ calls[p].name = calls[q].name) => p = q
    /\ \A p \in 1..Len(calls) :
        Len(calls[p].path) = 1 =>
            \E g \in 1..Len(RootGroups) :
                /\ RootGroups[g].key = calls[p].path[1]
                /\ RootGroups[g].fields[1].name = calls[p].name
    /\ \A s \in SelSets : \A p, q \in 1..Len(s.kids) :
        s.kids[p].path = s.kids[q].path => p = q

\* `person` selected three times, twice directly and once through a
\* fragment: one call, and the response built from the first node.
C5_Witness ==
    /\ root.st = "Ok"
    /\ \E g \in 1..Len(RootGroups) :
        RootGroups[g].key = "person" /\ Len(RootGroups[g].fields) = 3
    /\ \E p \in 1..Len(calls) : calls[p].path = <<"person">>

----------------------------------------------------------------------------
(* Execution: type conformance and errors.                                 *)

Values == {f \in Futures(root) : f.kind = "value"}

\* The kind of the type a field is declared with.
DeclaredKind(f) == find_type_definition_by_name(field_type_def(f.field.name))

\* The resolver does not name an object type of the schema.
BadTypeName(r) == find_type_definition_by_name(resolve_type_name(r)) # "Object"

RECURSIVE ErrorsIn(_)
\* The messages of an error and of the field errors it aggregates.
ErrorsIn(val) ==
    (IF val.t = "Error" THEN {val.v} ELSE {})
        \cup UNION {ErrorsIn(val.items[p].val) : p \in 1..Len(val.items)}

AbstractTypeErrors ==
    {"resolver did not return concrete type", "concrete object type not found",
     "type mismatch: object type expected"}

C13_SubtypeChecked ==
    \A v \in Values :
        (v.stage = "object" /\ DeclaredKind(v) \in {"Interface", "Union"})
            => is_subtype(resolve_type_name(v.resolved.r), field_type_def(v.field.name))

\* The field a response key of the checked queries stands for.
FieldOfKey(key) == IF key \in {"a", "b"} THEN "peopleCount" ELSE key

RECURSIVE HasShape(_, _, _), Conforms(_)
\* The value has the shape of a type of the given kind inside `lists` list
\* wrappers: a list exactly where a list is declared, an object for an object,
\* interface or union type, a leaf for a scalar or enum type.
HasShape(val, kind, lists) ==
    IF lists > 0
    THEN /\ val.t = "List"
         /\ \A p \in 1..Len(val.items) : HasShape(val.items[p].val, kind, lists - 1)
    ELSE IF kind \in {"Object", "Interface", "Union"}
    THEN val.t = "Object" /\ Conforms(val)
    ELSE val.t = "Scalar"

\* Every field of the response object has the shape of its declared type.
Conforms(obj) ==
    \A p \in 1..Len(obj.items) :
        LET name == FieldOfKey(obj.items[p].key) IN
        HasShape(obj.items[p].val, find_type_definition_by_name(field_type_def(name)),
                 field_ty_lists(name))

\* C14: every field value of a successful response has the shape of the
\* field's declared type; a resolver that returns another shape (an Object for
\* a scalar field, a Value for an object-typed field, an Array for a field
\* that is not a list) makes the field fail.
C14_ShapeConforms == result.st = "Ok" => Conforms(result.val)

\* A resolver call that answers with an error.
Fails(call) ==
    /\ call.name # "resolve_type_name"
    /\ UserResolve(call.resolver, call.name).st = "Err"

\* C15: field errors do not null-propagate. A selection set that holds a field
\* error does not complete with an object, and when a field task has failed
\* at any depth run returns an error that carries the failure, never a data
\* object, partial or not.
C15_NoNullPropagation ==
    /\ \A s \in SelSets : s.errs # <<>> => s.st # "Ok"
    /\ result.st = "Err" => result.val.t = "Error"
    /\ (result.st # "None" /\ \E p \in 1..Len(calls) : Fails(calls[p]))
        => /\ result.st = "Err"
           /\ {"resolver failed", "invalid field"} \cap ErrorsIn(result.val) # {}

\* The cat's `name` failed four levels down, after the dog's had succeeded,
\* and run has returned.
C15_Witness ==
    /\ result.st = "Err" /\ faulty = {<<"CatResolver", "name">>}
    /\ \E p, q \in 1..Len(calls) :
        /\ calls[p].path = <<"person", "pets", "1", "name">>
        /\ calls[q].path = <<"person", "pets", "2", "name">>

RECURSIVE NoNullElement(_)
\* No list of the value holds null in the place of an element.
NoNullElement(val) ==
    \A p \in 1..Len(val.items) :
        /\ val.t = "List" => val.items[p].val # NullV
        /\ NoNullElement(val.items[p].val)

\* A call made for an element of a list.
InList(call) == \E p \in 1..Len(call.path) : call.path[p] \in {"1", "2"}

\* C16: when the resolution of an element of a list fails the list field
\* fails: a list completes only with the value of every element, none of them
\* null in place of a failure, and a failed element makes run return an error.
C16_ListFailsWhole ==
    /\ \A a \in Arrays :
        /\ a.st = "Ok" =>
            /\ \A p \in 1..Len(a.kids) : a.kids[p].st = "Ok"
            /\ a.val = ListV([p \in 1..Len(a.kids) |-> a.kids[p].val])
        /\ (\E p \in 1..Len(a.kids) : p < a.next /\ a.kids[p].st = "Err") => a.st = "Err"
        /\ a.st = "Err" => a.val.t = "Error"
    /\ result.st = "Ok" => NoNullElement(result.val)
    /\ (result.st # "None" /\ \E p \in 1..Len(calls) : InList(calls[p]) /\ Fails(calls[p]))
        => result.st = "Err"

\* In the list of lists the cat's `name` failed where the dog's of the same
\* list had succeeded, and run has returned.
C16_Witness ==
    /\ result.st = "Err" /\ faulty = {<<"CatResolver", "name">>}
    /\ \E p, q \in 1..Len(calls) :
        /\ calls[p].path = <<"litters", "1", "1", "name">>
        /\ calls[q].path = <<"litters", "1", "2", "name">>

----------------------------------------------------------------------------
(* Executor::run: validation and the choice of the operation.              *)

\* Validation reported a diagnostic of error severity.
ErrorDiagnosed == \E p \in 1..Len(diags) : diags[p] = "error"

\* The operations of the document that operation_name designates.
Designated == {p \in 1..Len(operations) : operations[p].name = operation_name}

\* C17: when validation yields a diagnostic of error severity run returns an
\* error before execution begins, no selection set being executed and no
\* resolver called; diagnostics of other severities do not fail the request.
C17_ValidationFirst ==
    /\ ErrorDiagnosed =>
        /\ root = NoFut /\ calls = <<>> /\ query = <<>>
        /\ result.st \in {"None", "Err"}
        /\ result.st = "Err" => result.val = ErrV("graphql had errors")
    /\ (~ErrorDiagnosed /\ result.st # "None") =>
        /\ result.val # ErrV("graphql had errors")
        /\ Designated # {} => root.kind = "selset"
        /\ (/\ operations = TwoOperations /\ operation_name = Some("A")
            /\ faulty = {} /\ quirk = "none")
            => result = Returned("Ok", ObjectV(<<[key |-> "peopleCount", val |-> Scalar("42")]>>))

\* Validation gave an advice and an error, and run has returned.
C17_Witness ==
    /\ diags = <<"advice", "error">> /\ result.st = "Err"

\* C18: run executes the operation named operation_name, the anonymous one
\* when operation_name is absent; when no operation matches, run fails with
\* an operation-not-found error and no resolver is called.
C18_OperationByName ==
    ~ErrorDiagnosed =>
        /\ Designated = {} =>
            /\ root = NoFut /\ calls = <<>> /\ query = <<>>
            /\ result.st \in {"None", "Err"}
            /\ result.st = "Err" => result.val = ErrV("query operation not found")
        /\ (Designated # {} /\ result.st # "None") =>
            /\ root.kind = "selset"
            /\ \A p \in Designated : query = operations[p].sels
            /\ (operation_name = Some("B") /\ result.st = "Ok") =>
                    KeySet(result.val.items) = {"person"}

\* operation_name is absent, the document holds the operations A and B, and
\* run has returned.
C18_Witness ==
    /\ operations = TwoOperations /\ operation_name = None /\ diags = <<>>
    /\ result.st = "Err"

----------------------------------------------------------------------------
(* Introspection.                                                          *)

\* C19: at the operation root `__schema` is answered with a schema resolver
\* and `__type` with a type resolver, neither of them by a call of the user's
\* root resolver; every other field is delegated to the user's root resolver
\* under its own name.
C19_RootIntrospection ==
    /\ \A p \in 1..Len(calls) :
        Len(calls[p].path) = 1 =>
            /\ calls[p].resolver = "QueryResolver"
            /\ calls[p].name \notin {"__schema", "__type"}
            /\ calls[p].name = FieldOfKey(calls[p].path[1])
    /\ (result.st = "Ok" /\ \E p \in 1..Len(query) : query[p].name = "__schema")
        => "__schema" \in KeySet(result.val.items)

\* The value under `key` of a response object.
ValueAt(obj, key) ==
    LET p == CHOOSE q \in 1..Len(obj.items) : obj.items[q].key = key IN obj.items[p].val

\* The names of the types listed in the response to `__schema { types { name } }`.
ListedTypes ==
    LET types == ValueAt(ValueAt(result.val, "__schema"), "types") IN
    [p \in 1..Len(types.items) |-> ValueAt(types.items[p].val, "name").v]

\* The type definitions of the schema whose name does not begin with "__".
VisibleTypes ==
    {"Query", "Person", "Dog", "Cat", "Pet", "Named", "DogBreed", "CatBreed",
     "PetInput", "String", "Int"}

\* C20: `__schema { types }` lists every type definition of the schema whose
\* name does not start with "__" exactly once, and no type whose name starts
\* with "__".
C20_SchemaTypes ==
    /\ DOMAIN type_definitions_by_name = VisibleTypes \cup {"__Schema", "__Type"}
    /\ LET types == resolve_field_target(IspSchemaResolver, "types").out.resolved.elems IN
       /\ {types[p].r.name : p \in 1..Len(types)} = VisibleTypes
       /\ \A p, q \in 1..Len(types) : types[p].r.name = types[q].r.name => p = q
       /\ \A p \in 1..Len(types) : types[p].t = "Object" /\ types[p].r.kind = "IspTypeResolver"
    /\ (result.st = "Ok" /\ \E p \in 1..Len(query) : query[p].name = "__schema") =>
        /\ {ListedTypes[p] : p \in 1..Len(ListedTypes)} = VisibleTypes
        /\ Len(ListedTypes) = Cardinality(VisibleTypes)

\* The query `{ __schema { types { name } } peopleCount }` has been answered.
C20_Witness ==
    /\ result.st = "Ok"
    /\ \E p \in 1..Len(query) : query[p].name = "__schema"
    /\ Len(ListedTypes) > 0

----------------------------------------------------------------------------
(* Panics, cancellation and determinism.                                   *)

\* C21: a panic raised inside a resolver's resolve_field becomes the error of
\* that field and is handled as any field error is: no future ends by the
\* panic, and when run returns every field task of the root selection set has
\* settled with a value or a field error.
C21_PanicIsFieldError ==
    /\ \A f \in Futures(root) : f.st # "Panic"
    /\ (result.st # "None" /\ root.kind = "selset")
        => KeySet(root.outs) \cup KeySet(root.errs) = KeySet(RootGroups)

\* C22: once the future run returned is dropped, every field task in flight
\* is dropped at its next suspension point: no resolver call of the request
\* is started and no field task is resumed after the drop.
C22_DropCancels == [][dropped => (calls' = calls /\ root' = root)]_vars

\* C23: two runs with the same schema, query, operation name and variables
\* and the same pure resolvers return identical responses, key order and
\* element order included, whatever the order and timing in which the
\* resolver calls complete.
C23_Deterministic ==
    (first.st # "None" /\ result.st # "None") => result = first

----------------------------------------------------------------------------
(* Field collection: errors.                                               *)

\* The `if` argument is missing, or is neither a boolean nor a variable.
InvalidArg(arg) == arg \in {"noarg", "int"}

\* C24: when a selection reached by field collection carries a @skip or
\* @include whose `if` argument is missing or is neither a boolean literal
\* nor a variable reference, collect_fields fails with a directive-argument
\* error and returns no grouping.
C24_DirectiveArgument ==
    (/\ Finished
     /\ InvalidArg(FirstSel.skip) \/ InvalidArg(FirstSel.include)
     /\ ~IsVariable(FirstSel.skip) /\ ~IsVariable(FirstSel.include))
        => /\ cf.status = "err" /\ cf.err = "DirectiveArgumentInvalid"
           /\ cf_result(cf).grouped = <<>>

\* The selections before the p-th are collected without a failure.
ReachedAt(p) == collect_fields(SubSeq(cf_sel_set, 1, p - 1), cf_type).status = "ok"

\* A spread of a fragment the document does not define, not omitted.
MissingSpread(sel) ==
    /\ sel.kind = "FragmentSpread"
    /\ sel.name \notin {"PetFrag", "DogFrag", "NamedFrag", "Outer", "Cyc1", "Cyc2",
                        "SelfCyc", "QueryFrag", "EnumFrag", "GhostFrag"}
    /\ sel.skip \in {"absent", "false"} /\ sel.include \in {"absent", "true"}

\* C28: collect_fields fails with a fragment-not-found error whenever it
\* reaches, not skipping it through directives, a fragment spread whose name
\* is not in the fragment map, and returns no partial grouping; a skipped
\* spread of such a name does not fail it.
C28_FragmentNotFound ==
    Finished =>
        /\ (\E p \in 1..Len(cf_sel_set) : MissingSpread(cf_sel_set[p]) /\ ReachedAt(p))
            => /\ cf.status = "err" /\ cf.err = "FragmentNotFound"
               /\ cf_result(cf).grouped = <<>>
        /\ cf.err = "FragmentNotFound"
            => \E p \in 1..Len(cf_sel_set) : MissingSpread(cf_sel_set[p])

\* `dogBreed ...Missing`: the field had been collected when the spread failed.
C28_Witness ==
    /\ cf_sel_set = <<Fld("dogBreed"), Spread("Missing")>>
    /\ cf.status = "err" /\ cf.err = "FragmentNotFound" /\ cf.grouped # <<>>

----------------------------------------------------------------------------
(* Concurrency of the field tasks.                                         *)

\* path is at or below the place of future f.
Below(path, f) ==
    /\ Len(path) >= Len(f.path)
    /\ SubSeq(path, 1, Len(f.path)) = f.path

\* The future waits for the answer of a resolver call made at or below it.
WaitsForAnswer(f, cs) ==
    \E p \in 1..Len(cs) : Below(cs[p].path, f) /\ ~Answered(cs[p].path, cs[p].name)

\* C30: every poll of a selection set advances all its field tasks: after a
\* poll that returns, each field task still pending has been started and
\* waits for the answer of a resolver call of its own, so a field whose
\* resolver stays pending keeps no sibling from being called and from
\* completing.
C30_AllAdvanced ==
    [][(root.kind = "selset" /\ root' # root /\ root'.st # "Panic") =>
        \A s \in {f \in Futures(root') : f.kind = "selset"} :
            \A p \in 1..Len(s.kids) :
                /\ s.kids[p].stage # "start"
                /\ WaitsForAnswer(s.kids[p], calls')]_vars

\* `person` was collected before `peopleCount` and is still pending when
\* `peopleCount` has completed.
C30_Witness ==
    /\ root.st = "Pending" /\ Len(RootGroups) = 2
    /\ RootGroups[1].key = "person" /\ RootGroups[2].key = "peopleCount"
    /\ Len(root.kids) = 1 /\ root.kids[1].path = <<"person">>
    /\ KeySet(root.outs) = {"peopleCount"}

----------------------------------------------------------------------------
(* Ctx: the arguments of a field.                                          *)

RECURSIVE RefersUndefined(_)
\* The argument value refers, at any depth, to a variable the request does
\* not define.
RefersUndefined(value) ==
    \/ value.t = "Variable" /\ value.s \notin {"name", "count", "big", "ratio", "flag"}
    \/ \E p \in 1..Len(value.items) : RefersUndefined(value.items[p])

\* The type of the value the argument stands for, variables looked up.
TypeOfArg(value) ==
    CASE value.t = "Variable" /\ value.s = "name" -> "String"
      [] value.t = "Variable" /\ value.s = "count" -> "Int"
      [] value.t = "Variable" /\ value.s = "big" -> "BigInt"
      [] value.t = "Variable" /\ value.s = "ratio" -> "Float"
      [] value.t = "Variable" /\ value.s = "flag" -> "Boolean"
      [] value.t = "Int" /\ (value.n[1] > 32767 \/ value.n[1] < -32768) -> "BigInt"
      [] OTHER -> value.t

\* The type of argument values a target type converts from.
Accepts(target) ==
    CASE target = "String" -> "String"
      [] target = "i32" -> "Int"
      [] target = "f64" -> "Float"
      [] OTHER -> "Boolean"

\* C25: Ctx::arg(name) returns None exactly when try_arg(name) returns an
\* error, that is when the field has no argument of the name, when a variable
\* the argument refers to is undefined, or when the value's type is not the
\* target type; otherwise it returns Some of the converted value.
C25_ArgNoneOnError ==
    (call_in # <<>> /\ call_in.fn = "arg" /\ call_out # <<>>) =>
        LET value == call_in.arguments[1].value
            none == \/ call_in.name # "id"
                    \/ RefersUndefined(value)
                    \/ TypeOfArg(value) # Accepts(call_in.target) IN
        /\ call_out[2].st = "None" <=> none
        /\ call_out[2].st = "Some" <=> ~none
        /\ call_out[2].st = "None" <=> call_out[1].st = "Err"

----------------------------------------------------------------------------
(* Introspection: __Type.                                                  *)

\* The kind of the type a __Type resolver stands for, "None" for a name the
\* schema does not define.
KindOfType(resolver) ==
    IF resolver.inner # <<>>
    THEN (IF resolver.inner[1] = "List" THEN "LIST" ELSE "NON_NULL")
    ELSE CASE resolver.name \in {"Query", "Person", "Dog", "Cat", "__Schema", "__Type"} -> "OBJECT"
           [] resolver.name = "Pet" -> "INTERFACE"
           [] resolver.name = "Named" -> "UNION"
           [] resolver.name \in {"DogBreed", "CatBreed"} -> "ENUM"
           [] resolver.name = "PetInput" -> "INPUT_OBJECT"
           [] resolver.name \in {"String", "Int"} -> "SCALAR"
           [] OTHER -> "None"

\* The kinds for which the introspection schema requires the field non-null.
NonNullKinds(field) ==
    CASE field \in {"fields", "interfaces"} -> {"OBJECT", "INTERFACE"}
      [] field = "possibleTypes" -> {"INTERFACE", "UNION"}
      [] field = "enumValues" -> {"ENUM"}
      [] field = "inputFields" -> {"INPUT_OBJECT"}
      [] OTHER -> {"LIST", "NON_NULL"}

\* C26: of a __Type resolver, `fields` and `interfaces` are non-null exactly
\* for OBJECT and INTERFACE, `possibleTypes` exactly for INTERFACE and UNION,
\* `enumValues` exactly for ENUM, `inputFields` exactly for INPUT_OBJECT and
\* `ofType` exactly for LIST and NON_NULL; each is null for every other kind.
C26_TypeNullRules ==
    (/\ call_in # <<>> /\ call_in.fn = "resolve_field" /\ call_out # <<>>
     /\ call_in.name \in {"fields", "interfaces", "possibleTypes", "enumValues",
                          "inputFields", "ofType"}
     /\ KindOfType(call_in.resolver) # "None") =>
        /\ call_out[1].st = "Ok"
        /\ call_out[1].resolved # RValue(NullV)
            <=> KindOfType(call_in.resolver) \in NonNullKinds(call_in.name)

----------------------------------------------------------------------------
(* The maps of a selection-set execution.                                  *)

\* The selection-set futures owned, at any depth, by future f.
SelSetsOf(f) == {s \in Futures(f) : s.kind = "selset"}

\* The response keys of field_futs.
PendingKeys(s) == {s.kids[p].path[Len(s.kids[p].path)] : p \in 1..Len(s.kids)}

\* Every key of the three maps of a selection-set execution.
AllKeys(s) == PendingKeys(s) \cup KeySet(s.outs) \cup KeySet(s.errs)

\* No key is in two of the maps or twice in one, and no field future that
\* has settled is kept in field_futs.
Partitioned(s) ==
    /\ PendingKeys(s) \cap KeySet(s.outs) = {}
    /\ PendingKeys(s) \cap KeySet(s.errs) = {}
    /\ KeySet(s.outs) \cap KeySet(s.errs) = {}
    /\ Cardinality(PendingKeys(s)) = Len(s.kids)
    /\ Cardinality(KeySet(s.outs)) = Len(s.outs)
    /\ Cardinality(KeySet(s.errs)) = Len(s.errs)
    /\ \A p \in 1..Len(s.kids) : ~Done(s.kids[p])

\* Sequence a is the beginning of sequence b.
IsPrefix(a, b) == Len(a) <= Len(b) /\ SubSeq(b, 1, Len(a)) = a

\* C31: at every point of a selection-set execution each response key of
\* field collection is in exactly one of field_futs, output_map and
\* field_errors; a key placed in output_map or field_errors stays there with
\* its value; and a field task that has settled is not polled again: it is in
\* field_futs no more and its resolver is not called a second time.
C31_KeysPartitioned ==
    [][(root'.kind = "selset" /\ root'.st # "Panic") =>
        /\ root.kind # "selset" =>
            AllKeys(root') = KeySet(GroupsOf(query', "Query"))
        /\ \A t \in SelSetsOf(root') :
            /\ Partitioned(t)
            /\ \A s \in SelSetsOf(root) :
                s.path = t.path =>
                    /\ AllKeys(t) = AllKeys(s)
                    /\ IsPrefix(s.outs, t.outs)
                    /\ IsPrefix(s.errs, t.errs)
        /\ \A p, q \in 1..Len(calls') :
            (calls'[p].path = calls'[q].path /\ calls'[p].name = calls'[q].name) => p = q]_vars

\* One field of the root has its value, one its error and one is pending.
C31_Witness ==
    /\ root.kind = "selset" /\ root.st = "Pending"
    /\ root.kids # <<>> /\ root.outs # <<>> /\ root.errs # <<>>

----------------------------------------------------------------------------
(* Field nodes sharing a response key.                                     *)

\* The groups of the root whose key was selected several times with a field
\* of an object type.
SharedGroups ==
    {g \in 1..Len(RootGroups) :
        /\ Len(RootGroups[g].fields) > 1
        /\ find_type_definition_by_name(field_type_def(RootGroups[g].fields[1].name))
            = "Object"}

\* The response keys of the sub-selection set of the first field node.
FirstNodeKeys(g) ==
    KeySet(collect_fields(RootGroups[g].fields[1].sels,
                          field_type_def(RootGroups[g].fields[1].name)).grouped)

\* C32: when several field nodes share a response key, the nested selection
\* set executed for the key is that of the first field node only: resolvers
\* are called for its keys alone and the nested response object holds its
\* keys alone, those of the later nodes not being merged in. (A resolver
\* answering such a field with a plain value has no nested selection set
\* executed at all.)
C32_FirstNodeOnly ==
    \A g \in SharedGroups :
        /\ \A p \in 1..Len(calls) :
            (Len(calls[p].path) = 2 /\ calls[p].path[1] = RootGroups[g].key) =>
                calls[p].path[2] \in FirstNodeKeys(g)
        /\ (root.st = "Ok" /\ ValueAt(root.val, RootGroups[g].key).t = "Object") =>
            KeySet(ValueAt(root.val, RootGroups[g].key).items) = FirstNodeKeys(g)

\* `person` was selected with `firstName`, then with `age` and with
\* `lastName`: the response holds `firstName` alone.
C32_Witness ==
    /\ root.st = "Ok"
    /\ \E g \in SharedGroups :
        /\ RootGroups[g].key = "person"
        /\ KeySet(ValueAt(root.val, "person").items) = {"firstName"}
        /\ \E p \in 2..Len(RootGroups[g].fields) :
            RootGroups[g].fields[p].sels # RootGroups[g].fields[1].sels

----------------------------------------------------------------------------
(* Field collection failing for a selection set.                           *)

\* The groups of the root whose first field node is of an object type and
\* has a sub-selection set that field collection fails on.
FailingGroups ==
    {g \in 1..Len(RootGroups) :
        LET field == RootGroups[g].fields[1] IN
        /\ find_type_definition_by_name(field_type_def(field.name)) = "Object"
        /\ collect_fields(field.sels, field_type_def(field.name)).status = "err"}

\* C33: when field collection fails for a selection set, its execution fails
\* at construction with the error of the collection and no resolver is called
\* for any of its fields, those selected before the offending selection
\* included.
C33_CollectionFailsFirst ==
    /\ (query # <<>> /\ collect_fields(query, "Query").status = "err") =>
        /\ root.st = "Err" /\ root.kids = <<>> /\ root.outs = <<>>
        /\ root.val = ErrV(collect_fields(query, "Query").err)
        /\ result = Returned("Err", root.val)
        /\ calls = <<>>
    /\ \A g \in FailingGroups :
        /\ \A p \in 1..Len(calls) :
            calls[p].path[1] = RootGroups[g].key => Len(calls[p].path) = 1
        /\ root.st = "Ok" => ValueAt(root.val, RootGroups[g].key).t # "Object"
        /\ (Done(root) /\ quirk = "none") => RootGroups[g].key \in KeySet(root.errs)

\* `{ person { firstName ...Missing } peopleCount }` has been executed to its
\* end: `person` was resolved and nothing below it.
C33_Witness ==
    /\ Done(root) /\ FailingGroups # {}
    /\ \E p \in 1..Len(calls) : calls[p].path = <<"person">>
    /\ \E p \in 1..Len(root.errs) : root.errs[p].key = "person"

----------------------------------------------------------------------------
(* Lists with failing elements.                                            *)

\* The futures of list values owned by f that await their elements.
PendingArrays(f) ==
    {a \in Futures(f) : a.kind = "value" /\ a.stage = "array" /\ ~Done(a)}

\* A component of a path that is the index of a list element.
IsIndex(component) == component \in {"1", "2", "3"}

RECURSIVE LiveFutures(_)
\* The futures owned by f that can still be polled: those not settled whose
\* owners, up to f, are not settled.
LiveFutures(f) ==
    IF Done(f) THEN {}
    ELSE {f} \cup UNION {LiveFutures(f.kids[p]) : p \in 1..Len(f.kids)}

\* The call was made for an element of a list.
InElement(call) == \E i \in 1..Len(call.path) : IsIndex(call.path[i])

\* C34: a list fails as soon as its lowest-index failing element and every
\* element before it have completed, without waiting for later elements: no
\* list stays pending with such an element, and the tasks of the elements of
\* a list that has failed are not resumed: every resolver call below a list
\* element is made by a task that could still be polled, the element's or
\* one below it, or the task of a field above it that had not yet reached
\* the list.
C34_ListShortCircuits ==
    [][/\ \A a \in PendingArrays(root') :
            ~\E k \in 1..Len(a.kids) :
                /\ a.kids[k].st = "Err"
                /\ \A j \in 1..(k - 1) : Done(a.kids[j])
       /\ \A p \in (Len(calls) + 1)..Len(calls') :
            \A i \in 1..Len(calls'[p].path) :
                IsIndex(calls'[p].path[i]) =>
                    \E f \in LiveFutures(root) :
                        /\ Below(calls'[p].path, f)
                        /\ Len(f.path) >= i \/ f.kids = <<>>]_vars

\* A list has failed and the execution has ended while the resolver call of
\* a later element was still waiting for its answer.
C34_Witness ==
    /\ root.st = "Err"
    /\ \E p \in 1..Len(calls) :
        /\ InElement(calls[p])
        /\ ~Answered(calls[p].path, calls[p].name)

----------------------------------------------------------------------------
(* Resolvers behind shared handles.                                        *)

\* C35: Arc<T> behaves as T wherever an ObjectResolver is expected:
\* resolve_field and resolve_type_name return what those of the wrapped
\* resolver return.
C35_ArcTransparent ==
    (call_in # <<>> /\ call_in.fn \in {"resolve_field", "resolve_type_name"}
        /\ Len(call_out) = 2) =>
        call_out[2] = call_out[1]

----------------------------------------------------------------------------
(* Ctx: undefined variables and numbers.                                   *)

\* C36: try_arg returns an error, and arg None, when a variable referred to
\* anywhere in the argument value, inside list and object literals of any
\* depth included, is not defined in the variables of the request; the call
\* does not panic.
C36_UndefinedVariableIsError ==
    (/\ call_in # <<>> /\ call_in.fn = "arg" /\ Len(call_out) = 2
     /\ call_in.name = "id"
     /\ RefersUndefined(call_in.arguments[1].value)) =>
        /\ call_out[1].st = "Err"
        /\ call_out[2].st = "None"

\* The integer the argument stands for, as limbs.
IntegerOf(value) ==
    CASE value.t = "Variable" /\ value.s = "count" -> <<0, 7>>
      [] value.t = "Variable" /\ value.s = "big" -> <<76293, 61952>>
      [] OTHER -> value.n

\* C37: conversion of an argument does not change the type or the range of a
\* number: as i32 it succeeds only for an integer of the signed 32-bit range
\* and returns that integer, an integer out of the range is an error, a
\* float-valued number is an error; as f64 it succeeds only for a
\* float-valued number.
C37_NumbersKeepTypeAndRange ==
    (/\ call_in # <<>> /\ call_in.fn = "arg" /\ Len(call_out) = 2
     /\ call_in.name = "id") =>
        LET value == call_in.arguments[1].value
            integer == TypeOfArg(value) \in {"Int", "BigInt"}
            float == TypeOfArg(value) = "Float" IN
        /\ call_in.target = "i32" =>
            /\ call_out[1].st = "Ok" =>
                /\ TypeOfArg(value) = "Int"
                /\ call_out[1].v.t = "Number" /\ call_out[1].v.s = "i64"
                /\ call_out[1].v.n = IntegerOf(value)
            /\ TypeOfArg(value) = "BigInt" => call_out[1].st = "Err"
            /\ float => call_out[1].st = "Err"
        /\ call_in.target = "f64" =>
            /\ call_out[1].st = "Ok" => float /\ call_out[1].v.s = "f64"
            /\ integer => call_out[1].st # "Ok"

----------------------------------------------------------------------------
(* Termination.                                                            *)

\* C39: with a finite selection tree and resolver calls that all return,
\* every selection-set execution completes and run returns a value or an
\* error: no field task stays pending for ever.
C39_Terminates ==
    <>(/\ result.st \in {"Ok", "Err"}
       /\ root.kind = "selset" => Done(root) /\ LiveFutures(root) = {})

\* A request has been answered after several of its resolver calls had been
\* suspended and resumed.
C39_Witness ==
    /\ result.st = "Ok" /\ Done(root)
    /\ Cardinality(ready) >= 3

====
